---- MODULE Spec2Model ----
(***************************************************************************)
(* Model of the CryptoPanic scraper: the Cloudflare challenge gate, the    *)
(* scroll-convergence driver, bulk and concurrent fallback extraction, the *)
(* checkpointed article cache and the run pipeline of NewsArticleScraper   *)
(* (news_scraper.py), with the gate of CryptoPanicScraper                  *)
(* (api_news_scraper.py) as a second gate variant, and the redirect        *)
(* resolver with its enrichment fetcher (open_all_redirect_urls).          *)
(***************************************************************************)
EXTENDS Integers, Sequences, FiniteSets, TLC

(***************************************************************************)
(* Program constants.                                                      *)
(***************************************************************************)
CF_MAX_ATTEMPTS == 5

INCREMENTAL_SAVE_INTERVAL == 50

DEFAULT_MAX_CONCURRENCY == 50

(***************************************************************************)
(* Bounds of the model.                                                    *)
(***************************************************************************)
\* max_retries ranges over 1..MaxRetriesBound
MaxRetriesBound == 5

\* longest DOM (number of article rows) of the scroll and extraction runs
MaxDom == 3

\* longest batch of redirect urls of an enrichment pass
MaxBatch == 2

\* longest DOM of a whole run of the pipeline
MaxRunDom == 2

\* number of article rows of the checkpointing run
MaxBulk == 52

\* largest number of rows of one pass whose element queries raise
MaxFaults == 1
\* largest number of articles the api scraper collects in one run
MaxArticles == 3

VARIABLES
    pc,            \* position of the control flow
    \* ---- challenge gate
    gateKind,      \* "news": _bypass_cloudflare, "api": cloudflare_bypass
    gateCaller,    \* "run" or "redirect" (_open_redirect_page)
    challenge,     \* page: the challenge marker is in the DOM
    attempt,       \* news: loop variable attempt; api: counter
    cfMarker,      \* result of the last marker poll (truthy or not)
    polls,         \* number of marker polls performed
    presentPolls,  \* number of polls that found the marker
    cfSleeps,      \* number of page.sleep(5) calls of the gate
    solves,        \* number of page.verify_cf() calls
    shots,         \* number of screenshots saved
    gateResult,    \* "none", "Ok", "ChallengeFailed" or another exception
    \* ---- scroll-convergence driver
    maxRetries,    \* self.max_retries
    rendered,      \* page: number of article rows currently in the DOM
    staleCount,    \* stale_count
    previousCount, \* previous_count
    iter,          \* number of loop iterations completed
    markerSeen,    \* _is_all_loaded returned True
    changes,       \* number of iterations whose count differed from the previous
    lastChange,    \* index of the last such iteration (0: none)
    \* ---- extraction
    forceUpdate,   \* self.force_update
    dom,           \* page: the article rows, in document order
    cache,         \* self.cache: url -> ArticleData
    cacheAtEntry,  \* the cache when extraction started
    newSinceLastSave, \* self._new_since_last_save
    raw,           \* result of the bulk script: "none", "raise", "nonlist", "list"
    idx,           \* bulk loop: number of items processed
    newCount,      \* new_count (-1: bulk extraction failed)
    maxConcurrency, \* self.max_concurrency
    sem,           \* value of the asyncio.Semaphore
    task,          \* fallback: state of each per-element task
    results,       \* fallback: result of each finished task
    queryFaults,   \* fallback: rows whose element queries raise in this pass
    passes,        \* summaries of the extraction passes already completed
    \* ---- durable cache file
    file,          \* [state: "missing" | "ok" | "corrupt" | "undecodable", records]
    fileAtStart,   \* the file when the process started
    sourcesFile,   \* cached_sources.json: "ok" or "missing"
    laterPass,     \* this enrichment pass follows another over the same files
    loadOutcome,   \* how _load_cache ended: "loaded", "missing", "corrupt",
                   \* "unreadable", or the exception it raised
    ckptSaves,     \* number of checkpoint saves triggered
    lastSave,      \* outcome of the last _save_cache call
    \* ---- run pipeline
    browser,       \* "none", "running", "stopped"
    pending,       \* exception in flight while the finally block runs
    outcome,       \* "running", "returned", or the exception run() raised
    finalSaves,    \* number of _save_cache calls made by run's finally block
    \* ---- redirect resolver and enrichment fetcher
    batch,         \* redirected_urls with sources: the records to resolve
    pos,           \* number of records of the batch already handled
    redirectedUrls, \* redirected_urls_dict: redirect url -> final url or tag
    contentMap,    \* content_map: redirect url -> content or null
    fetchLog,      \* per redirect url: calls of the fetcher, GETs, sleeps
    observed,      \* per redirect url: what the browser and the reader did
    unsavedCount,  \* unsaved_count
    recent,        \* recently_fetched_urls
    savedIndex,    \* the redirect index as last written to disk
    upserts,       \* sink: number of upserts of each redirect url
    cachedDf,      \* cached_df: redirect url -> [source, content, final]
    sinkRows,      \* sink: the rows of the table news_content
    savedContent,  \* the content cache as last written to disk
    jinaKey,       \* self._jina_api_key is set
    clock,         \* time elapsed in the pass, in hundredths of a second
    getStarts,     \* the times at which the GETs of the fetcher started
    \* ---- api scraper: retry loops
    retryKind,     \* "description", "text" or "attribute": the function called
    minimumTime,   \* minimum_time, in hundredths of a second
    tries,         \* attempt: number of attempts completed
    attemptLog,    \* what each attempt met
    delays,        \* the sleeps made after failed attempts, in order
    fetched,       \* "none", or what the call returned
    \* ---- api scraper: page pool of async_update_descriptions
    toUpdate,      \* len(articles_to_update): the records waiting for a page
    pagePool,      \* page_pool: the pages created
    \* ---- api scraper: run pipeline
    apiKey,        \* self.api_key is set
    apiData,       \* self.data: the URL of each record collected by this run
    apiSaved,      \* number of entries save_data wrote for the collected records
    descCalls      \* update_descriptions: the reader calls made, in order

gateVars == <<gateKind, gateCaller, challenge, attempt, cfMarker, polls,
              presentPolls, cfSleeps, solves, shots, gateResult>>

scrollVars == <<maxRetries, rendered, staleCount, previousCount, iter,
                markerSeen, changes, lastChange>>

extractVars == <<forceUpdate, dom, cache, cacheAtEntry, newSinceLastSave, raw,
                 idx, newCount, maxConcurrency, sem, task, results, queryFaults,
                 passes>>

storeVars == <<file, fileAtStart, sourcesFile, laterPass, loadOutcome, ckptSaves,
              lastSave>>

runVars == <<browser, pending, outcome, finalSaves>>

resolveVars == <<batch, pos, redirectedUrls, contentMap, fetchLog, observed,
                 unsavedCount, recent, savedIndex, upserts, cachedDf, sinkRows,
                 savedContent, jinaKey, clock, getStarts>>

retryVars == <<retryKind, minimumTime, tries, attemptLog, delays, fetched>>

poolVars == <<toUpdate, pagePool>>

apiVars == <<retryVars, poolVars, apiKey, apiData, apiSaved, descCalls>>

vars == <<pc, gateVars, scrollVars, extractVars, storeVars, runVars,
          resolveVars, apiVars>>

(***************************************************************************)
(* Article rows, urls and records.                                         *)
(***************************************************************************)
\* A url path "/news/<id>/<slug>" is the triple of its numeric id, its slug
\* and whether the attribute value has whitespace around the path; id 0 is a
\* path without a numeric id.  NoUrl is a missing or empty href, and
\* PaddedUrl(0, "") an href of whitespace only.
Url(id, slug) == [id |-> id, slug |-> slug, pad |-> FALSE]

PaddedUrl(id, slug) == [id |-> id, slug |-> slug, pad |-> TRUE]

NoUrl == Url(0, "")

\* What a fallback parse yields for a dropped row.
None == [none |-> TRUE]

\* Texts are "", the whitespace-only text " ", or a text without whitespace
\* around it: str.strip() in Python, String.prototype.trim() in the script.
strip(s) == IF s = " " THEN "" ELSE s

strip_url(url) == [url EXCEPT !.pad = FALSE]

\* re.search(r"/news/(\d+)/", url): "/news/click/<id>/", else the url itself.
build_redirect_url(url) ==
    IF url.id > 0 THEN Url(url.id, "click/") ELSE url

\* dict assignment d[k] = v
Put(c, url, article) ==
    [u \in (DOMAIN c) \cup {url} |-> IF u = url THEN article ELSE c[u]]

EmptyCache == [u \in {} |-> None]

EmptyVotes == [l \in {} |-> 0]

ArticleData(title, url, redirect_url, date, source, source_type, currencies, votes) ==
    [title |-> title, url |-> url, redirect_url |-> redirect_url, date |-> date,
     source |-> source, source_type |-> source_type, currencies |-> currencies,
     votes |-> votes]

\* A DOM row as the element queries see it.  An optional child or attribute
\* is <<>> when missing and <<v>> when present:
\*   title   text of "span.title-text span"
\*   url     href of "a.news-cell.nc-title" (NoUrl when missing)
\*   time    the "time" element: its datetime attribute ("" when it has
\*           none) and its text
\*   source  text of "span.si-source-domain"
\*   icons   which of the twitter and youtube icons the row has
\*   tickers texts of the "a.colored-link" nodes, in document order
\*   votes   title attributes of the "span.nc-vote-cont" nodes, each one the
\*           sequence of its whitespace-separated tokens
Element(title, url, time, source, icons, tickers, votes) ==
    [title |-> title, url |-> url, time |-> time, source |-> source,
     icons |-> icons, tickers |-> tickers, votes |-> votes]

\* A row with a title ("" for none) and a link and nothing else.
Row(title, url) ==
    Element(IF title = "" THEN <<>> ELSE <<title>>, url, <<>>, <<>>, {}, <<>>, <<>>)

\* Tokens of a vote attribute: a run of digits, or any other word.
Num(n) == [kind |-> "num", n |-> n, w |-> ""]

Word(w) == [kind |-> "word", n |-> 0, w |-> w]

\* The vote pattern ^\s*(\d+)\s+(.+?)\s+votes?\s*$: digits, a label of one or
\* more tokens, then "vote" or "votes".
vote_match_without_label(attr) ==
    /\ Len(attr) >= 2
    /\ attr[1].kind = "num"
    /\ attr[Len(attr)] \in {Word("vote"), Word("votes")}

vote_match(attr) ==
    /\ Len(attr) >= 3
    /\ attr[1].kind = "num"
    /\ attr[Len(attr)] \in {Word("vote"), Word("votes")}

vote_label(attr) == SubSeq(attr, 2, Len(attr) - 1)

\* votes[label] = count for each matching attribute, in document order.
RECURSIVE parse_votes(_, _)
parse_votes(votes, attrs) ==
    IF attrs = <<>> THEN votes
    ELSE LET attr == Head(attrs) IN
         parse_votes(IF vote_match(attr)
                     THEN Put(votes, vote_label(attr), attr[1].n)
                     ELSE votes,
                     Tail(attrs))

\* ---- per-element queries of the fallback; `fault`: the query raises.
\* None and "" are both falsy, and the callers test nothing else.
get_text(nodes, fault) ==
    IF fault THEN ""
    ELSE IF nodes # <<>> /\ nodes[1] # "" THEN strip(nodes[1]) ELSE ""

get_attribute(nodes, fault) ==
    IF fault THEN ""
    ELSE IF nodes # <<>> /\ nodes[1] # "" THEN strip(nodes[1]) ELSE ""

\* _get_attribute(element, "a.news-cell.nc-title", "href")
get_href(url, fault) ==
    IF fault THEN NoUrl
    ELSE IF url # NoUrl THEN strip_url(url) ELSE NoUrl

detect_source_type(icons, fault) ==
    IF fault THEN "link"
    ELSE IF "twitter" \in icons THEN "twitter"
    ELSE IF "youtube" \in icons THEN "youtube"
    ELSE "link"

get_currencies(nodes, fault) ==
    LET withText == SelectSeq(nodes, LAMBDA t : t # "")
        tickers == [i \in 1..Len(withText) |-> strip(withText[i])]
    IN  IF fault THEN <<"N/A">>
        ELSE IF tickers # <<>> THEN tickers ELSE <<"N/A">>

get_votes(attrs, fault) ==
    IF fault THEN EmptyVotes
    ELSE parse_votes(EmptyVotes, SelectSeq(attrs, LAMBDA a : a # <<>>))

\* _parse_article: None without a title or without a url.
parse_article(el, fault) ==
    LET title == get_text(el.title, fault)
        url == get_href(el.url, fault)
        datetime == get_attribute(IF el.time = <<>> THEN <<>>
                                  ELSE <<el.time[1].datetime>>, fault)
        timeText == get_text(IF el.time = <<>> THEN <<>>
                             ELSE <<el.time[1].text>>, fault)
        source == get_text(el.source, fault)
    IN  IF title = "" THEN None
        ELSE IF url = NoUrl THEN None
        ELSE ArticleData(title, url, build_redirect_url(url),
                         IF datetime # "" THEN datetime
                         ELSE IF timeText # "" THEN timeText ELSE "",
                         IF source # "" THEN source ELSE "unknown",
                         detect_source_type(el.icons, fault),
                         get_currencies(el.tickers, fault),
                         get_votes(el.votes, fault))

\* One item of the list the bulk script returns (null is "" or NoUrl).
extract_all_js(el) ==
    LET trimmed == [i \in 1..Len(el.tickers) |-> strip(el.tickers[i])]
    IN  [title |-> IF el.title # <<>> THEN strip(el.title[1]) ELSE "",
         url |-> el.url,
         redirect_url |-> IF el.url # NoUrl THEN build_redirect_url(el.url) ELSE el.url,
         date |-> IF el.time # <<>>
                  THEN (IF el.time[1].datetime # "" THEN el.time[1].datetime
                        ELSE strip(el.time[1].text))
                  ELSE "",
         source |-> IF el.source # <<>> THEN strip(el.source[1]) ELSE "unknown",
         source_type |-> IF "twitter" \in el.icons THEN "twitter"
                         ELSE IF "youtube" \in el.icons THEN "youtube"
                         ELSE "link",
         currencies |-> IF Len(el.tickers) > 0
                        THEN SelectSeq(trimmed, LAMBDA t : t # "")
                        ELSE <<"N/A">>,
         votes |-> parse_votes(EmptyVotes, el.votes)]

\* A record as an earlier pass stored it for a row with a title and a link.
PlainArticle(title, url) ==
    ArticleData(title, url, build_redirect_url(url), "", "unknown", "link",
                <<"N/A">>, EmptyVotes)

\* The rows the page has rendered so far.
articles == SubSeq(dom, 1, rendered)

(***************************************************************************)
(* Durable cache file.                                                     *)
(***************************************************************************)
File(state, records) == [state |-> state, records |-> records]

\* _load_cache: {} when the file is missing, when json.load fails on it, or
\* when opening or reading it raises OSError (fault).  Bytes that are not
\* UTF-8 make the read raise UnicodeDecodeError, a ValueError that
\* `except (json.JSONDecodeError, OSError)` does not catch.
load_outcome(f, fault) ==
    IF f.state = "missing" THEN "missing"
    ELSE IF fault THEN "unreadable"
    ELSE IF f.state = "undecodable" THEN "UnicodeDecodeError"
    ELSE IF f.state = "corrupt" THEN "corrupt"
    ELSE "loaded"

load_cache(f, fault) ==
    IF load_outcome(f, fault) = "loaded" THEN f.records ELSE EmptyCache

\* Outcomes of _save_cache.  An OSError of open or of the write is logged and
\* swallowed; any other exception of json.dump (UnicodeEncodeError on a lone
\* surrogate, TypeError on a value json cannot serialise) leaves _save_cache.
\* open(..., "w") truncates the file, so a write that fails or raises leaves
\* it cut short.
SaveOutcomes == {"ok", "open_failed", "write_failed", "raised"}

save_cache(f, c, o) ==
    CASE o = "ok" -> File("ok", c)
      [] o = "open_failed" -> f
      [] o = "write_failed" -> File("corrupt", EmptyCache)
      [] o = "raised" -> File("corrupt", EmptyCache)

\* _conditional_incremental_save: the threshold test.
checkpoint_due(n) == n >= INCREMENTAL_SAVE_INTERVAL

\* self.cache[url] = article
cache_assign_afresh(c, url, article) == Put(EmptyCache, url, article)

cache_assign(c, url, article) == Put(c, url, article)

\* self.cache[url] = article; self._new_since_last_save += 1;
\* self._conditional_incremental_save().  When _save_cache raises, the reset
\* of the counter after it is not reached.
store_and_checkpoint(url, article) ==
    /\ cache' = cache_assign(cache, url, article)
    /\ IF checkpoint_due(newSinceLastSave + 1)
       THEN \E o \in SaveOutcomes :
               /\ file' = save_cache(file, cache', o)
               /\ lastSave' = o
               /\ ckptSaves' = ckptSaves + 1
               /\ newSinceLastSave' = (IF o = "raised" THEN newSinceLastSave + 1
                                       ELSE 0)
       ELSE /\ newSinceLastSave' = newSinceLastSave + 1
            /\ UNCHANGED <<file, lastSave, ckptSaves>>

\* The checkpoint of this step was due and _save_cache raised.
checkpoint_raised ==
    checkpoint_due(newSinceLastSave + 1) /\ lastSave' = "raised"

(***************************************************************************)
(* Challenge-clearance gate.                                               *)
(***************************************************************************)
\* Outcomes of one marker poll.  news: wait_for raises when the marker does
\* not show up within the timeout, and any exception of the poll leaves
\* cf_marker = None; api: page.find returns the element or None.
PollOutcomes ==
    IF challenge THEN {"present", "raised"}
    ELSE IF gateKind = "news" THEN {"absent"}
    ELSE {"absent", "raised"}

\* An awaited call of the automation layer that no try guards (page.sleep,
\* page.verify_cf, page.save_screenshot, and page.find of the api gate)
\* completes, or raises and leaves the gate with its exception.
CallOutcomes == {"ok", "ProtocolException"}

\* Where the gate goes after a poll: `if not cf_marker: return`.
after_poll_no_return(found) == "cf_sleep"

after_poll(found) == IF found THEN "cf_sleep" ELSE "cf_done"

\* range(1, _CF_MAX_ATTEMPTS + 1) has a next value; `counter >= 5`.
more_attempts(a) == a < CF_MAX_ATTEMPTS

\* The page during a wait or a solve: the challenge stays or clears.
ChallengeAfter == {challenge, FALSE}

GateStart(kind, caller) ==
    /\ gateKind = kind
    /\ gateCaller = caller
    /\ attempt = (IF kind = "news" THEN 1 ELSE 0)
    /\ cfMarker = FALSE
    /\ polls = 0
    /\ presentPolls = 0
    /\ cfSleeps = 0
    /\ solves = 0
    /\ shots = 0
    /\ gateResult = "none"

notGate == <<scrollVars, extractVars, storeVars, runVars, resolveVars, apiVars>>

\* news_scraper.py: one pass of the try block and the `if not cf_marker`.
bypass_cloudflare_poll ==
    /\ pc = "cf_poll"
    /\ gateKind = "news"
    /\ \E o \in PollOutcomes :
        LET found == (o = "present") IN
        /\ cfMarker' = found
        /\ polls' = polls + 1
        /\ presentPolls' = presentPolls + (IF found THEN 1 ELSE 0)
        /\ pc' = after_poll(found)
        /\ gateResult' = (IF after_poll(found) = "cf_done" THEN "Ok" ELSE gateResult)
    /\ UNCHANGED <<gateKind, gateCaller, challenge, attempt, cfSleeps, solves, shots>>
    /\ UNCHANGED notGate

\* await page.sleep(5), outside the try: an exception of it leaves the gate.
bypass_cloudflare_sleep ==
    /\ pc = "cf_sleep"
    /\ gateKind = "news"
    /\ cfSleeps' = cfSleeps + 1
    /\ \E o \in CallOutcomes :
        IF o = "ok"
        THEN /\ challenge' \in ChallengeAfter
             /\ gateResult' = gateResult
             /\ pc' = "cf_solve"
        ELSE /\ challenge' = challenge
             /\ gateResult' = o
             /\ pc' = "cf_done"
    /\ UNCHANGED <<gateKind, gateCaller, attempt, cfMarker, polls, presentPolls,
                   solves, shots>>
    /\ UNCHANGED notGate

\* await page.verify_cf(), outside the try, then the next value of the for
\* loop.
bypass_cloudflare_solve ==
    /\ pc = "cf_solve"
    /\ gateKind = "news"
    /\ solves' = solves + 1
    /\ \E o \in CallOutcomes :
        IF o # "ok"
        THEN /\ challenge' = challenge
             /\ attempt' = attempt
             /\ gateResult' = o
             /\ pc' = "cf_done"
        ELSE /\ challenge' \in ChallengeAfter
             /\ gateResult' = gateResult
             /\ IF more_attempts(attempt)
                THEN /\ attempt' = attempt + 1
                     /\ pc' = "cf_poll"
                ELSE /\ attempt' = attempt
                     /\ pc' = "cf_exhausted"
    /\ UNCHANGED <<gateKind, gateCaller, cfMarker, polls, presentPolls, cfSleeps,
                   shots>>
    /\ UNCHANGED notGate

\* After the loop: `if cf_marker:` await page.save_screenshot(...), whose
\* exception leaves the gate in place of the RuntimeError raised after it.
bypass_cloudflare_exhausted ==
    /\ pc = "cf_exhausted"
    /\ gateKind = "news"
    /\ IF cfMarker
       THEN \E o \in CallOutcomes :
               IF o = "ok"
               THEN /\ shots' = shots + 1
                    /\ gateResult' = "ChallengeFailed"
               ELSE /\ shots' = shots
                    /\ gateResult' = o
       ELSE /\ shots' = shots
            /\ gateResult' = "Ok"
    /\ pc' = "cf_done"
    /\ UNCHANGED <<gateKind, gateCaller, challenge, attempt, cfMarker, polls,
                   presentPolls, cfSleeps, solves>>
    /\ UNCHANGED notGate

\* api_news_scraper.py: `while await page.find("Ray ID")` and counter += 1.
\* page.find is not guarded: when it raises, no poll has ended and the
\* exception leaves the gate.
cloudflare_bypass_poll ==
    /\ pc = "cf_poll"
    /\ gateKind = "api"
    /\ \E o \in PollOutcomes :
        IF o = "raised"
        THEN /\ UNCHANGED <<cfMarker, polls, presentPolls, attempt>>
             /\ gateResult' = "ProtocolException"
             /\ pc' = "cf_done"
        ELSE LET found == (o = "present") IN
             /\ cfMarker' = found
             /\ polls' = polls + 1
             /\ presentPolls' = presentPolls + (IF found THEN 1 ELSE 0)
             /\ attempt' = attempt + (IF found THEN 1 ELSE 0)
             /\ pc' = after_poll(found)
             /\ gateResult' = (IF after_poll(found) = "cf_done" THEN "Ok"
                               ELSE gateResult)
    /\ UNCHANGED <<gateKind, gateCaller, challenge, cfSleeps, solves, shots>>
    /\ UNCHANGED notGate

\* await page.sleep(5), not guarded.
cloudflare_bypass_sleep ==
    /\ pc = "cf_sleep"
    /\ gateKind = "api"
    /\ cfSleeps' = cfSleeps + 1
    /\ \E o \in CallOutcomes :
        IF o = "ok"
        THEN /\ challenge' \in ChallengeAfter
             /\ gateResult' = gateResult
             /\ pc' = "cf_solve"
        ELSE /\ challenge' = challenge
             /\ gateResult' = o
             /\ pc' = "cf_done"
    /\ UNCHANGED <<gateKind, gateCaller, attempt, cfMarker, polls, presentPolls,
                   solves, shots>>
    /\ UNCHANGED notGate

\* await page.verify_cf(...), not guarded, then the test `if counter >= 5`.
cloudflare_bypass_solve ==
    /\ pc = "cf_solve"
    /\ gateKind = "api"
    /\ solves' = solves + 1
    /\ \E o \in CallOutcomes :
        IF o # "ok"
        THEN /\ challenge' = challenge
             /\ gateResult' = o
             /\ pc' = "cf_done"
        ELSE /\ challenge' \in ChallengeAfter
             /\ gateResult' = gateResult
             /\ pc' = (IF more_attempts(attempt) THEN "cf_poll"
                       ELSE "cf_exhausted")
    /\ UNCHANGED <<gateKind, gateCaller, attempt, cfMarker, polls, presentPolls,
                   cfSleeps, shots>>
    /\ UNCHANGED notGate

\* counter >= 5: await page.save_screenshot(...), not guarded, then the
\* raise.  An exception of the screenshot leaves the gate in its place.
cloudflare_bypass_exhausted ==
    /\ pc = "cf_exhausted"
    /\ gateKind = "api"
    /\ \E o \in CallOutcomes :
        IF o = "ok"
        THEN /\ shots' = shots + 1
             /\ gateResult' = "ChallengeFailed"
        ELSE /\ shots' = shots
             /\ gateResult' = o
    /\ pc' = "cf_done"
    /\ UNCHANGED <<gateKind, gateCaller, challenge, attempt, cfMarker, polls,
                   presentPolls, cfSleeps, solves>>
    /\ UNCHANGED notGate

NewsGateNext ==
    \/ bypass_cloudflare_poll
    \/ bypass_cloudflare_sleep
    \/ bypass_cloudflare_solve
    \/ bypass_cloudflare_exhausted

ApiGateNext ==
    \/ cloudflare_bypass_poll
    \/ cloudflare_bypass_sleep
    \/ cloudflare_bypass_solve
    \/ cloudflare_bypass_exhausted

GateNext ==
    \/ NewsGateNext
    \/ ApiGateNext

(***************************************************************************)
(* Scroll-convergence driver: the while loop of _scroll_and_collect.       *)
(***************************************************************************)
\* `if current_count == previous_count: stale_count += 1 ... else: stale_count = 0`
next_stale_no_reset(current, previous, stale) ==
    IF current = previous THEN stale + 1 ELSE stale

next_stale(current, previous, stale) ==
    IF current = previous THEN stale + 1 ELSE 0

\* `if stale_count >= self.max_retries: break`
stale_exhausted_late(stale) == stale > maxRetries

stale_exhausted(stale) == stale >= maxRetries

notScroll == <<gateVars, forceUpdate, dom, cache, cacheAtEntry, newSinceLastSave,
               raw, idx, newCount, maxConcurrency, sem, task, results,
               queryFaults, passes, storeVars, runVars, resolveVars,
               apiVars>>

\* One iteration: scroll, pause, best-effort "Load more" click (the page may
\* grow), count the rows, update the stale streak, check the all-loaded marker
\* (_is_all_loaded is False when the query raises).
scroll_iteration ==
    /\ pc = "sc_loop"
    /\ \E current \in rendered..Len(dom), allLoaded \in BOOLEAN :
        LET stale == next_stale(current, previousCount, staleCount)
            brk == (current = previousCount) /\ stale_exhausted(stale)
        IN  /\ rendered' = current
            /\ staleCount' = stale
            /\ iter' = iter + 1
            /\ changes' = (IF current # previousCount THEN changes + 1 ELSE changes)
            /\ lastChange' = (IF current # previousCount THEN iter + 1 ELSE lastChange)
            /\ IF brk
               THEN /\ previousCount' = previousCount
                    /\ markerSeen' = markerSeen
                    /\ pc' = "bulk"
               ELSE /\ previousCount' = current
                    /\ markerSeen' = allLoaded
                    /\ pc' = (IF allLoaded THEN "bulk" ELSE "sc_loop")
    /\ UNCHANGED maxRetries
    /\ UNCHANGED notScroll

\* page.evaluate(scrollTo) or page.query_selector_all raises: nothing in
\* _scroll_and_collect catches it.
scroll_raise ==
    /\ pc = "sc_loop"
    /\ pending' = "ScrollError"
    /\ pc' = "finally_stop"
    /\ UNCHANGED <<apiVars, resolveVars, gateVars, scrollVars, extractVars, storeVars, browser, outcome, finalSaves>>

ScrollNext ==
    \/ scroll_iteration
    \/ scroll_raise

(***************************************************************************)
(* Extraction: _bulk_extract_articles, then the concurrent fallback.       *)
(***************************************************************************)
\* `if url in self.cache and not self.force_update`
already_cached_never(url) == FALSE

already_cached(url) == url \in DOMAIN cache /\ ~forceUpdate

\* ArticleData(...) built from a bulk item; every key is in the item, so no
\* default of item.get applies.
article_from_item(item) ==
    ArticleData(item.title, item.url, item.redirect_url, item.date, item.source,
                item.source_type, item.currencies, item.votes)

\* `if not title or not url`
missing_title_only(title, url) == title = ""

missing_title_or_url(title, url) == title = "" \/ url = NoUrl

\* self.max_concurrency = max_concurrency or self._DEFAULT_MAX_CONCURRENCY
effective_max_concurrency(mc) == IF mc = 0 THEN DEFAULT_MAX_CONCURRENCY ELSE mc

notStored == <<forceUpdate, dom, cacheAtEntry, maxConcurrency, passes,
               fileAtStart, sourcesFile, laterPass, loadOutcome>>

\* What page.evaluate(_EXTRACT_ALL_JS) gives: it raises, it returns something
\* that is not a list, it returns the list of the rows' items, or it returns
\* a list whose first item is not a mapping.
BulkOutcomes == {"raise", "nonlist", "list", "badlist"}

\* raw = await page.evaluate(_EXTRACT_ALL_JS) and the isinstance test.
bulk_evaluate ==
    /\ pc = "bulk"
    /\ \E r \in BulkOutcomes :
        /\ raw' = r
        /\ IF r \in {"list", "badlist"}
           THEN /\ newCount' = 0
                /\ pc' = "bulk_loop"
           ELSE /\ newCount' = -1
                /\ pc' = "fallback"
    /\ idx' = 0
    /\ UNCHANGED <<forceUpdate, dom, cache, cacheAtEntry, newSinceLastSave,
                   maxConcurrency, sem, task, results, queryFaults, passes>>
    /\ UNCHANGED <<apiVars, resolveVars, gateVars, scrollVars, storeVars, runVars>>

\* One pass of `for idx, item in enumerate(raw, start=1)`.  The loop is not
\* inside a try: an exception of the checkpoint save leaves
\* _bulk_extract_articles and its callers.
bulk_item ==
    /\ pc = "bulk_loop"
    /\ raw = "list"
    /\ idx < Len(articles)
    /\ LET item == extract_all_js(articles[idx + 1]) IN
       IF missing_title_or_url(item.title, item.url)
       THEN /\ UNCHANGED <<cache, newSinceLastSave, newCount, file, lastSave, ckptSaves>>
            /\ UNCHANGED pending
            /\ pc' = "bulk_loop"
       ELSE IF already_cached(item.url)
       THEN /\ UNCHANGED <<cache, newSinceLastSave, newCount, file, lastSave, ckptSaves>>
            /\ UNCHANGED pending
            /\ pc' = "bulk_loop"
       ELSE /\ store_and_checkpoint(item.url, article_from_item(item))
            /\ newCount' = newCount + 1
            /\ pending' = (IF checkpoint_raised THEN "SaveError" ELSE pending)
            /\ pc' = (IF checkpoint_raised THEN "finally_stop" ELSE "bulk_loop")
    /\ idx' = idx + 1
    /\ UNCHANGED <<raw, sem, task, results, queryFaults>>
    /\ UNCHANGED notStored
    /\ UNCHANGED <<apiVars, resolveVars, gateVars, scrollVars, browser, outcome,
                   finalSaves>>

\* item.get(...) on an item that is not a mapping raises AttributeError; the
\* loop is not inside a try, so _bulk_extract_articles and its callers raise.
bulk_item_raise ==
    /\ pc = "bulk_loop"
    /\ raw = "badlist"
    /\ pending' = "ItemError"
    /\ pc' = "finally_stop"
    /\ UNCHANGED <<apiVars, resolveVars, gateVars, scrollVars, extractVars, storeVars, browser, outcome, finalSaves>>

\* `return new_count`
bulk_return ==
    /\ pc = "bulk_loop"
    /\ raw = "list"
    /\ idx = Len(articles)
    /\ pc' = "collected"
    /\ UNCHANGED <<apiVars, resolveVars, gateVars, scrollVars, extractVars, storeVars, runVars>>

\* _parse_articles_concurrent: query the rows, create the semaphore and one
\* task per row inside the TaskGroup.
parse_articles_concurrent ==
    /\ pc = "fallback"
    /\ task' = [i \in 1..Len(articles) |-> "waiting"]
    /\ results' = [i \in 1..Len(articles) |-> FALSE]
    /\ sem' = maxConcurrency
    /\ pc' = "tasks"
    /\ UNCHANGED <<forceUpdate, dom, cache, cacheAtEntry, newSinceLastSave, raw,
                   idx, newCount, maxConcurrency, queryFaults, passes>>
    /\ UNCHANGED <<apiVars, resolveVars, gateVars, scrollVars, storeVars, runVars>>

\* page.query_selector_all raises in _parse_articles_concurrent.
parse_articles_concurrent_raise ==
    /\ pc = "fallback"
    /\ pending' = "QueryError"
    /\ pc' = "finally_stop"
    /\ UNCHANGED <<apiVars, resolveVars, gateVars, scrollVars, extractVars, storeVars, browser, outcome, finalSaves>>

\* asyncio.Semaphore.acquire succeeds while the value is positive.
can_acquire_always(value) == TRUE

can_acquire(value) == value > 0

\* Tasks start, and waiters are woken, in creation order.
NextWaiting(i) ==
    /\ task[i] = "waiting"
    /\ \A j \in 1..(i - 1) : task[j] # "waiting"

\* _limited_parse: `async with sem:` entered.
limited_parse_enter(i) ==
    /\ pc = "tasks"
    /\ NextWaiting(i)
    /\ can_acquire(sem)
    /\ sem' = sem - 1
    /\ task' = [task EXCEPT ![i] = "parsing"]
    /\ pc' = pc
    /\ UNCHANGED <<forceUpdate, dom, cache, cacheAtEntry, newSinceLastSave, raw,
                   idx, newCount, maxConcurrency, results, queryFaults, passes>>
    /\ UNCHANGED <<apiVars, resolveVars, gateVars, scrollVars, storeVars, runVars>>

\* _parse_and_store from the moment `await self._parse_article(element)`
\* returns: no further await up to the return and the release of the semaphore.
\* The queries of the rows in queryFaults raise; each helper catches the
\* exception and returns its default.  An exception of the checkpoint save is
\* caught by `except Exception`, which returns False after the cache write.
parse_and_store(i) ==
    /\ pc = "tasks"
    /\ task[i] = "parsing"
    /\ LET result == parse_article(articles[i], i \in queryFaults) IN
       IF result = None
       THEN /\ results' = [results EXCEPT ![i] = FALSE]
            /\ UNCHANGED <<cache, newSinceLastSave, file, lastSave, ckptSaves>>
       ELSE IF already_cached(result.url)
       THEN /\ results' = [results EXCEPT ![i] = FALSE]
            /\ UNCHANGED <<cache, newSinceLastSave, file, lastSave, ckptSaves>>
       ELSE /\ store_and_checkpoint(result.url, result)
            /\ results' = [results EXCEPT ![i] = ~checkpoint_raised]
    /\ task' = [task EXCEPT ![i] = "done"]
    /\ sem' = sem + 1
    /\ pc' = pc
    /\ UNCHANGED <<raw, idx, newCount, queryFaults>>
    /\ UNCHANGED notStored
    /\ UNCHANGED <<apiVars, resolveVars, gateVars, scrollVars, runVars>>

\* results = [t.result() for t in tasks]; sum(results)
sum_results(res) == Cardinality({i \in DOMAIN res : res[i]})

\* The TaskGroup exits when every task is done; `return sum(results)`.
task_group_exit ==
    /\ pc = "tasks"
    /\ \A i \in DOMAIN task : task[i] = "done"
    /\ newCount' = sum_results(results)
    /\ pc' = "collected"
    /\ UNCHANGED <<forceUpdate, dom, cache, cacheAtEntry, newSinceLastSave, raw,
                   idx, maxConcurrency, sem, task, results, queryFaults, passes>>
    /\ UNCHANGED <<apiVars, resolveVars, gateVars, scrollVars, storeVars, runVars>>

\* The sets of rows whose element queries may raise during one pass.
FaultSets(n) == {F \in SUBSET (1..n) : Cardinality(F) <= MaxFaults}

\* The extraction of _scroll_and_collect called once more on the same page by
\* the same scraper: the cache and the since-last-save counter are kept.
PassSummary == [raw |-> raw, faults |-> queryFaults, newCount |-> newCount]

extract_again ==
    /\ pc = "collected"
    /\ passes = <<>>
    /\ passes' = Append(passes, PassSummary)
    /\ cacheAtEntry' = cache
    /\ raw' = "none"
    /\ idx' = 0
    /\ newCount' = 0
    /\ sem' = 0
    /\ task' = <<>>
    /\ results' = <<>>
    /\ queryFaults' \in FaultSets(Len(dom))
    /\ pc' = "bulk"
    /\ UNCHANGED <<forceUpdate, dom, cache, newSinceLastSave, maxConcurrency>>
    /\ UNCHANGED <<apiVars, resolveVars, gateVars, scrollVars, storeVars, runVars>>

ExtractNext ==
    \/ bulk_evaluate
    \/ bulk_item
    \/ bulk_item_raise
    \/ bulk_return
    \/ parse_articles_concurrent
    \/ parse_articles_concurrent_raise
    \/ \E i \in DOMAIN task : limited_parse_enter(i)
    \/ \E i \in DOMAIN task : parse_and_store(i)
    \/ task_group_exit

(***************************************************************************)
(* NewsArticleScraper.run: start, try (get, gate, scroll and collect),     *)
(* finally (stop, save cache, save unique urls).                           *)
(***************************************************************************)
\* browser = await zd.start(...), before the try block.
run_start ==
    /\ pc = "start"
    /\ \E ok \in BOOLEAN :
        IF ok
        THEN /\ browser' = "running"
             /\ outcome' = outcome
             /\ pc' = "get"
        ELSE /\ browser' = browser
             /\ outcome' = "StartError"
             /\ pc' = "done"
    /\ UNCHANGED <<pending, finalSaves>>
    /\ UNCHANGED <<apiVars, resolveVars, gateVars, scrollVars, extractVars, storeVars>>

\* page = await browser.get(self._BASE_URL)
run_get ==
    /\ pc = "get"
    /\ \E ok \in BOOLEAN :
        IF ok
        THEN /\ pending' = pending
             /\ pc' = "cf_poll"
        ELSE /\ pending' = "GetError"
             /\ pc' = "finally_stop"
    /\ UNCHANGED <<browser, outcome, finalSaves>>
    /\ UNCHANGED <<apiVars, resolveVars, gateVars, scrollVars, extractVars, storeVars>>

\* await self._bypass_cloudflare(page) has returned or raised RuntimeError.
run_after_gate ==
    /\ pc = "cf_done"
    /\ gateCaller = "run"
    /\ gateKind = "news"
    /\ IF gateResult = "Ok"
       THEN /\ pending' = pending
            /\ pc' = "sc_loop"
       ELSE /\ pending' = gateResult
            /\ pc' = "finally_stop"
    /\ UNCHANGED <<browser, outcome, finalSaves>>
    /\ UNCHANGED <<apiVars, resolveVars, gateVars, scrollVars, extractVars, storeVars>>

\* _scroll_and_collect logs the totals and returns.
run_collected ==
    /\ pc = "collected"
    /\ pc' = "finally_stop"
    /\ UNCHANGED <<apiVars, resolveVars, gateVars, scrollVars, extractVars, storeVars, runVars>>

\* finally: await browser.stop(); an exception of it leaves the finally block.
finally_stop ==
    /\ pc = "finally_stop"
    /\ \E ok \in BOOLEAN :
        IF ok
        THEN /\ browser' = "stopped"
             /\ outcome' = outcome
             /\ pc' = "finally_save"
        ELSE /\ browser' = browser
             /\ outcome' = "StopError"
             /\ pc' = "done"
    /\ UNCHANGED <<pending, finalSaves>>
    /\ UNCHANGED <<apiVars, resolveVars, gateVars, scrollVars, extractVars, storeVars>>

\* finally: self._save_cache(); an exception of it leaves the finally block
\* before _save_unique_urls.
finally_save ==
    /\ pc = "finally_save"
    /\ \E o \in SaveOutcomes :
        /\ file' = save_cache(file, cache, o)
        /\ lastSave' = o
        /\ outcome' = (IF o = "raised" THEN "SaveError" ELSE outcome)
        /\ pc' = (IF o = "raised" THEN "done" ELSE "finally_unique")
    /\ finalSaves' = finalSaves + 1
    /\ UNCHANGED <<fileAtStart, sourcesFile, laterPass, loadOutcome, ckptSaves,
                   browser, pending>>
    /\ UNCHANGED <<apiVars, resolveVars, gateVars, scrollVars, extractVars>>

\* pd.read_json(self.cache_path).T.query("source_type == 'link'") raises on a
\* missing or malformed file and on a frame without that column (no records).
unique_urls_readable(f) == f.state = "ok" /\ DOMAIN f.records # {}

\* finally: self._save_unique_urls(), then the pending exception, if any.
finally_unique ==
    /\ pc = "finally_unique"
    /\ outcome' = (IF ~unique_urls_readable(file) THEN "ReadError"
                   ELSE IF pending # "none" THEN pending
                   ELSE "returned")
    /\ pc' = "done"
    /\ UNCHANGED <<browser, pending, finalSaves>>
    /\ UNCHANGED <<apiVars, resolveVars, gateVars, scrollVars, extractVars, storeVars>>

RunNext ==
    \/ run_start
    \/ run_get
    \/ run_after_gate
    \/ run_collected
    \/ finally_stop
    \/ finally_save
    \/ finally_unique

(***************************************************************************)
(* Redirect resolver and enrichment fetcher: open_all_redirect_urls with   *)
(* its closures _open_redirect_page and _incremental_save, and             *)
(* read_with_jina_api.                                                     *)
(***************************************************************************)
REDIRECT_SAVE_INTERVAL == 10

\* _JINA_RATE_LIMIT_AUTH = 0.12 and _JINA_RATE_LIMIT_FREE = 3.0 seconds, in
\* hundredths of a second.
JINA_RATE_LIMIT_AUTH == 12

JINA_RATE_LIMIT_FREE == 300

BASE_URL == "https://cryptopanic.com/"

\* A url after redirection is the pair of its scheme and host, up to and
\* with the first slash of the path, and the rest of the url.
FinalUrls == {<<BASE_URL, "news/1/a">>, <<"https://a.com/", "post">>}

NoFinal == <<>>

\* final_url.startswith(self._BASE_URL)
starts_with_base_never(url) == FALSE

starts_with_base(url) == url[1] = BASE_URL

\* A value of redirected_urls_dict: the final url, the sentinel
\* "Cloudflare Page Error", or f"Error: {exc}".
Resolved(url) == [tag |-> "", exc |-> "", url |-> url]

CloudflarePageError ==
    [tag |-> "Cloudflare Page Error", exc |-> "", url |-> NoFinal]

ErrorTag(exc) == [tag |-> "Error: ", exc |-> exc, url |-> NoFinal]

\* Content: None, or the text of the response.
Null == <<>>

Text(body) == <<body>>

\* `except Exception` catches every exception of the automation layer and
\* the gate's RuntimeError, and lets a KeyboardInterrupt pass.
is_exception_timeout_only(exc) == exc = "TimeoutError"

is_exception(exc) == exc # "KeyboardInterrupt"

\* A domain is the sequence of its labels: "news.a.com" is <<"news", "a.com">>.
PREFIXES == <<"www", "en", "news", "feeds2", "daily", "square">>

\* for prefix in prefixes: if domain.startswith(prefix): strip it, from the
\* k-th prefix of the list on.
RECURSIVE strip_prefixes_from(_, _)
strip_prefixes_from(domain, k) ==
    IF k > Len(PREFIXES) THEN domain
    ELSE strip_prefixes_from(
             IF Len(domain) > 1 /\ domain[1] = PREFIXES[k]
             THEN Tail(domain) ELSE domain,
             k + 1)

strip_single_prefix(domain) == strip_prefixes_from(domain, 1)

\* self._sources_config, in the order of the file: the second key normalizes
\* to the same domain as the first.
SourcesConfig ==
    << [key |-> <<"www", "a.com">>, skip |-> FALSE],
       [key |-> <<"a.com">>, skip |-> TRUE],
       [key |-> <<"b.com">>, skip |-> TRUE] >>

\* The first config, from the k-th on, whose stripped key is the stripped
\* source; <<>> is None.
RECURSIVE find_config_from(_, _)
find_config_from(stripped, k) ==
    IF k > Len(SourcesConfig) THEN <<>>
    ELSE IF strip_single_prefix(SourcesConfig[k].key) = stripped
         THEN <<SourcesConfig[k]>>
         ELSE find_config_from(stripped, k + 1)

find_source_config(source) == find_config_from(strip_single_prefix(source), 1)

\* config.get("skip")
config_skipped_never(config) == FALSE

config_skipped(config) == config.skip

\* requests.get(...) and response.raise_for_status(): the response arrives,
\* the transport fails, or the status is an error.
HttpOutcomes == {"ok", "transport", "status"}

\* self._jina_rate_limit, as __init__ sets it.
jina_rate_limit == IF jinaKey THEN JINA_RATE_LIMIT_AUTH ELSE JINA_RATE_LIMIT_FREE

\* `finally: time.sleep(self._jina_rate_limit)` around the GET.
rate_sleeps_on_success(http) == IF http = "ok" THEN 1 ELSE 0

rate_sleeps(http) == 1

\* read_with_jina_api(url, source) when the reader service answers http:
\* the content returned, the GETs issued and the rate-limit sleeps made.
read_with_jina_api(source, http) ==
    LET config == find_source_config(source) IN
    IF config = <<>>
    THEN [calls |-> 1, content |-> Null, gets |-> 0, sleeps |-> 0]
    ELSE IF config_skipped(config[1])
    THEN [calls |-> 1, content |-> Null, gets |-> 0, sleeps |-> 0]
    ELSE [calls |-> 1,
          content |-> (IF http = "ok" THEN Text("body") ELSE Null),
          gets |-> 1, sleeps |-> rate_sleeps(http)]

NotFetched == [calls |-> 0, content |-> Null, gets |-> 0, sleeps |-> 0]

\* What happened to one record: the navigation, the gate, the marker query,
\* the url of the page and the answer of the reader service.
Observation(nav, gate, query, final, http) ==
    [nav |-> nav, gate |-> gate, query |-> query, final |-> final, http |-> http]

\* The assignments of _open_redirect_page to the two dicts, and the time
\* the fetcher took: its GET starts now, and only its sleep takes time.
record_result(r, entry, fetch, obs) ==
    /\ redirectedUrls' = Put(redirectedUrls, r, entry)
    /\ contentMap' = Put(contentMap, r, fetch.content)
    /\ fetchLog' = Put(fetchLog, r, fetch)
    /\ observed' = Put(observed, r, obs)
    /\ getStarts' = (IF fetch.gets = 1 THEN Append(getStarts, clock)
                     ELSE getStarts)
    /\ clock' = clock + fetch.sleeps * jina_rate_limit

\* A row of cached_df and of the sink: None is Null, a value v is <<v>>.
DfRow(source, content, final) ==
    [source |-> source, content |-> content, final |-> final]

\* cached_df["content"] = cached_df["redirect_url"].map(content_map)
\*     .combine_first(cached_df["content"]), and the same for final_url with
\* redirected_urls_dict: a mapped value that is not None wins.
combine_first(df, idx_map, content_map) ==
    [r \in DOMAIN df |->
        DfRow(df[r].source,
              IF r \in DOMAIN content_map /\ content_map[r] # Null
              THEN content_map[r] ELSE df[r].content,
              IF r \in DOMAIN idx_map THEN <<idx_map[r]>> ELSE df[r].final)]

\* fetched_df: the rows of cached_df whose redirect url is in the list.
Fetched(df, urls) == {r \in DOMAIN df : \E i \in 1..Len(urls) : urls[i] = r}

\* self._save_data_in_db(fetched_df): each row is inserted, or replaces every
\* column of the row with its redirect url (on_conflict_do_update).
upsert(rows, df, urls) ==
    [r \in DOMAIN rows \cup Fetched(df, urls) |->
        IF r \in Fetched(df, urls) THEN df[r] ELSE rows[r]]

Upserted(df, urls) ==
    [u \in DOMAIN upserts \cup Fetched(df, urls) |->
        (IF u \in DOMAIN upserts THEN upserts[u] ELSE 0)
        + (IF u \in Fetched(df, urls) THEN 1 ELSE 0)]

\* What DataFrame.to_parquet does for the redirect index, the first write of
\* _incremental_save: it writes the file, or it raises an OSError, a
\* ValueError or, without a parquet engine, an ImportError.
IndexWriteOutcomes == {"ok", "OSError", "ValueError", "ImportError"}

\* What it does for cached_df, which is written only after the index write
\* found an engine: it writes the file, or it raises an OSError, a ValueError
\* (pyarrow's ArrowInvalid is one) or a NotImplementedError (a column parquet
\* cannot hold, as a struct without fields).
ContentWriteOutcomes == {"ok", "OSError", "ValueError", "NotImplementedError"}

SinkOutcomes == {"ok", "raise"}

\* _save_redirected_urls: `except (OSError, ValueError)` logs the failure.
save_redirected_urls_catches(exc) == exc \in {"OSError", "ValueError"}

\* _save_content_cache: `except OSError` logs the failure.
save_content_cache_catches(exc) == exc = "OSError"

\* The exception that leaves _incremental_save() called with the list urls,
\* "none" when it returns: that of the index write (w), else that of the
\* content-cache write (wc), else that of the upsert (db) of a list that is
\* not empty.
incremental_save_raises(urls, w, wc, db) ==
    IF w # "ok" /\ ~save_redirected_urls_catches(w) THEN w
    ELSE IF wc # "ok" /\ ~save_content_cache_catches(wc) THEN wc
    ELSE IF urls # <<>> /\ db # "ok" THEN "SinkError"
    ELSE "none"

\* The outcomes of the three calls _incremental_save() makes with the list
\* urls: a call that is not reached, because an earlier one raised or the
\* list is empty, has no outcome ("ok" stands for it).
SaveRuns(urls) ==
    {s \in IndexWriteOutcomes \X ContentWriteOutcomes \X SinkOutcomes :
        /\ incremental_save_raises(<<>>, s[1], "ok", "ok") # "none"
              => s[2] = "ok"
        /\ (incremental_save_raises(<<>>, s[1], s[2], "ok") # "none"
               \/ urls = <<>>) => s[3] = "ok"}

\* _incremental_save() with the list urls and the two dicts: the write of the
\* index (w), the update of the two columns of cached_df, the write of the
\* content cache (wc), the upsert of the rows of the list (db) and the
\* clearing of the list.  An exception leaves it at the statement that
\* raised.
incremental_save(urls, idx_map, content_map, w, wc, db) ==
    LET index_raised == w # "ok" /\ ~save_redirected_urls_catches(w) IN
    /\ savedIndex' = (IF w = "ok" THEN idx_map ELSE savedIndex)
    /\ cachedDf' = (IF index_raised THEN cachedDf
                    ELSE combine_first(cachedDf, idx_map, content_map))
    /\ savedContent' = (IF ~index_raised /\ wc = "ok" THEN cachedDf'
                        ELSE savedContent)
    /\ IF urls # <<>> /\ incremental_save_raises(urls, w, wc, db) = "none"
       THEN /\ recent' = <<>>
            /\ upserts' = Upserted(cachedDf', urls)
            /\ sinkRows' = upsert(sinkRows, cachedDf', urls)
       ELSE /\ recent' = urls
            /\ upserts' = upserts
            /\ sinkRows' = sinkRows

\* `unsaved_count >= self._REDIRECT_SAVE_INTERVAL`
redirect_save_due(n) == n >= REDIRECT_SAVE_INTERVAL

\* The rest of the loop body after _open_redirect_page returned for r.
loop_tail(r) ==
    /\ batch' = batch
    /\ jinaKey' = jinaKey
    /\ pos' = pos + 1
    /\ IF redirect_save_due(unsavedCount + 1)
       THEN \E s \in SaveRuns(Append(recent, r)) :
               LET raised == incremental_save_raises(Append(recent, r),
                                                     s[1], s[2], s[3]) IN
               /\ incremental_save(Append(recent, r), redirectedUrls',
                                   contentMap', s[1], s[2], s[3])
               /\ IF raised = "none"
                  THEN /\ unsavedCount' = 0
                       /\ pending' = pending
                       /\ pc' = "rd_loop"
                  ELSE /\ unsavedCount' = unsavedCount + 1
                       /\ pending' = raised
                       /\ pc' = "rd_finally"
       ELSE /\ recent' = Append(recent, r)
            /\ unsavedCount' = unsavedCount + 1
            /\ UNCHANGED <<savedIndex, upserts, cachedDf, sinkRows,
                           savedContent, pending>>
            /\ pc' = "rd_loop"

\* _open_redirect_page ended for r by an exception exc raised in its try
\* block.
page_failed(r, exc, obs) ==
    IF is_exception(exc)
    THEN /\ record_result(r, ErrorTag(exc), NotFetched, obs)
         /\ loop_tail(r)
    ELSE /\ pending' = exc
         /\ pc' = "rd_finally"
         /\ UNCHANGED resolveVars

notResolve == <<scrollVars, extractVars, storeVars, finalSaves, apiVars>>

\* A page whose challenge marker is or is not in the DOM, and the locals of
\* a call of the gate on it before its first poll.
fresh_gate(ch) ==
    /\ challenge' = ch
    /\ gateKind' = "news"
    /\ gateCaller' = "redirect"
    /\ attempt' = 1
    /\ cfMarker' = FALSE
    /\ polls' = 0
    /\ presentPolls' = 0
    /\ cfSleeps' = 0
    /\ solves' = 0
    /\ shots' = 0
    /\ gateResult' = "none"

\* `if not redirected_urls: return`, then browser = await zd.start(...).
open_all_start ==
    /\ pc = "rd_start"
    /\ IF batch = <<>>
       THEN /\ outcome' = "returned"
            /\ browser' = browser
            /\ pc' = "done"
       ELSE \E ok \in BOOLEAN :
               IF ok
               THEN /\ browser' = "running"
                    /\ outcome' = outcome
                    /\ pc' = "rd_loop"
               ELSE /\ browser' = browser
                    /\ outcome' = "StartError"
                    /\ pc' = "done"
    /\ UNCHANGED <<pending, resolveVars, gateVars>>
    /\ UNCHANGED notResolve

NavOutcomes == {"ok", "TimeoutError", "ProtocolException", "KeyboardInterrupt"}

\* The next record of the loop: page = await browser.get(...), and the entry
\* into the gate (bypass_cf is True).
open_redirect_get ==
    /\ pc = "rd_loop"
    /\ pos < Len(batch)
    /\ LET r == batch[pos + 1].redirect_url IN
       \E nav \in NavOutcomes, ch \in BOOLEAN :
        IF nav = "ok"
        THEN /\ fresh_gate(ch)
             /\ pc' = "cf_poll"
             /\ UNCHANGED <<pending, resolveVars>>
        ELSE /\ ch = FALSE
             /\ page_failed(r, nav, Observation(nav, "none", "none", NoFinal, "none"))
             /\ UNCHANGED gateVars
    /\ UNCHANGED <<browser, outcome>>
    /\ UNCHANGED notResolve

QueryOutcomes == {"marker", "clear", "ProtocolException"}

\* The gate has returned or raised; page.query_selector("cf-footer-item"),
\* page.url, the classification of the url and the call of the fetcher.
\* The page is left and the locals of the gate are gone when it returns.
open_redirect_classify ==
    /\ pc = "cf_done"
    /\ gateCaller = "redirect"
    /\ LET r == batch[pos + 1].redirect_url
           source == batch[pos + 1].source IN
       IF gateResult # "Ok"
       THEN page_failed(r, gateResult,
                        Observation("ok", gateResult, "none", NoFinal, "none"))
       ELSE \E q \in QueryOutcomes :
            IF q = "marker"
            THEN /\ record_result(r, CloudflarePageError, NotFetched,
                                  Observation("ok", "Ok", q, NoFinal, "none"))
                 /\ loop_tail(r)
            ELSE IF q # "clear"
            THEN page_failed(r, q, Observation("ok", "Ok", q, NoFinal, "none"))
            ELSE \E final \in FinalUrls :
                 IF starts_with_base(final)
                 THEN /\ record_result(r, Resolved(final), NotFetched,
                                       Observation("ok", "Ok", q, final, "none"))
                      /\ loop_tail(r)
                 ELSE \E http \in HttpOutcomes :
                      /\ record_result(r, Resolved(final),
                                       read_with_jina_api(source, http),
                                       Observation("ok", "Ok", q, final, http))
                      /\ loop_tail(r)
    /\ fresh_gate(FALSE)
    /\ UNCHANGED <<browser, outcome>>
    /\ UNCHANGED notResolve

\* The loop is over, or an exception left it: `except Exception` wraps it,
\* and the finally block begins with _incremental_save(), whose exception
\* leaves the block (and the pass) before the stop of the browser.
open_all_finally ==
    /\ \/ pc = "rd_loop" /\ pos = Len(batch)
       \/ pc = "rd_finally"
    /\ \E s \in SaveRuns(recent) :
        LET raised == incremental_save_raises(recent, s[1], s[2], s[3]) IN
        /\ incremental_save(recent, redirectedUrls, contentMap,
                            s[1], s[2], s[3])
        /\ outcome' = (IF raised # "none" THEN raised ELSE outcome)
        /\ pc' = (IF raised # "none" THEN "done" ELSE "rd_stop")
    /\ UNCHANGED <<browser, pending, batch, pos, redirectedUrls, contentMap,
                   fetchLog, observed, unsavedCount, jinaKey, clock, getStarts,
                   gateVars>>
    /\ UNCHANGED notResolve

\* The finally block ends with `await browser.stop()`; then the pass returns,
\* or the exception that `except Exception` did not catch goes on.
open_all_stop ==
    /\ pc = "rd_stop"
    /\ \E stop \in BOOLEAN :
        IF ~stop
        THEN /\ browser' = browser
             /\ outcome' = "StopError"
        ELSE /\ browser' = "stopped"
             /\ outcome' = (IF pending = "none" THEN "returned"
                            ELSE IF is_exception(pending) THEN "ResolveError"
                            ELSE pending)
    /\ pc' = "done"
    /\ UNCHANGED <<pending, batch, pos, redirectedUrls, contentMap, fetchLog,
                   observed, unsavedCount, jinaKey, clock, getStarts, gateVars>>
    /\ UNCHANGED <<recent, cachedDf, sinkRows, savedIndex, savedContent, upserts>>
    /\ UNCHANGED notResolve

\* _remove_site_prefixes: one leading prefix of the list is removed.
remove_site_prefixes(domain) ==
    IF Len(domain) > 1 /\ \E k \in 1..Len(PREFIXES) : domain[1] = PREFIXES[k]
    THEN Tail(domain)
    ELSE domain

\* The source column of the file of cached sources.
CachedSources == {<<"a.com">>, <<"www", "b.com">>}

\* _load_redirected_urls on a readable cache file: the click-through path and
\* the stripped source of every link record whose stripped source is a
\* stripped cached source.
load_redirected_urls(f) ==
    LET cached_sources_list == {remove_site_prefixes(c) : c \in CachedSources}
        link_data == {u \in DOMAIN f.records :
                         f.records[u].source_type = "link"} IN
    {[redirect_url |-> f.records[u].redirect_url,
      source |-> remove_site_prefixes(f.records[u].source)] :
        u \in {v \in link_data :
                  remove_site_prefixes(f.records[v].source)
                      \in cached_sources_list}}

\* cached_df = pd.read_json(self.cache_path).T with the columns content and
\* final_url added as None: a row for every record of the cache file, keyed
\* here by its redirect url.
read_cached_df(f) ==
    [r \in {f.records[u].redirect_url : u \in DOMAIN f.records} |->
        DfRow((CHOOSE a \in {f.records[u] : u \in DOMAIN f.records} :
                  a.redirect_url = r).source, Null, Null)]

\* The orders in which a query without ORDER BY can return the rows.
RowOrders(rows) ==
    {o \in [1..Cardinality(rows) -> rows] :
        \A i, j \in 1..Cardinality(rows) : i # j => o[i] # o[j]}

\* _load_redirected_urls returns the dict {} when the file of cached sources
\* or the cache file does not exist.
loaded_is_empty_dict == sourcesFile = "missing" \/ file.state = "missing"

\* The head of open_all_redirect_urls: the link records are loaded (reading
\* a malformed cache file, or one without records, raises), the sink is read,
\* the loaded records the sink lacks are appended to it (the subscript
\* ["redirect_url"] raises KeyError on the dict {}), and the batch is the rows
\* without content of the frame read before the append.  cached_df is read
\* from the cache file when the batch is not empty.
open_all_select ==
    /\ pc = "rd_select"
    /\ \E sql \in SinkOutcomes :
        IF ~loaded_is_empty_dict /\ ~unique_urls_readable(file)
        THEN /\ outcome' = "ReadError"
             /\ pc' = "done"
             /\ UNCHANGED resolveVars
        ELSE IF sql # "ok" \/ loaded_is_empty_dict
        THEN /\ outcome' = (IF sql # "ok" THEN "SinkError" ELSE "KeyError")
             /\ pc' = "done"
             /\ UNCHANGED resolveVars
        ELSE LET loaded_data == load_redirected_urls(file)
                 news_content == sinkRows
                 unloaded_data == {l \in loaded_data :
                                      l.redirect_url \notin DOMAIN news_content}
                 not_cached_data == {r \in DOMAIN news_content :
                                        news_content[r].content = Null} IN
             /\ sinkRows' =
                   [r \in DOMAIN sinkRows
                          \cup {l.redirect_url : l \in unloaded_data} |->
                       IF r \in DOMAIN sinkRows THEN sinkRows[r]
                       ELSE DfRow((CHOOSE l \in unloaded_data :
                                      l.redirect_url = r).source, Null, Null)]
             /\ \E o \in RowOrders(not_cached_data) :
                   batch' = [i \in 1..Len(o) |->
                               [redirect_url |-> o[i],
                                source |-> news_content[o[i]].source]]
             /\ cachedDf' =
                   (IF not_cached_data = {} THEN cachedDf
                    ELSE read_cached_df(file))
             /\ outcome' = outcome
             /\ pc' = "rd_start"
             /\ UNCHANGED <<pos, redirectedUrls, contentMap, fetchLog, observed,
                            unsavedCount, recent, savedIndex, upserts,
                            savedContent, jinaKey, clock, getStarts>>
    /\ UNCHANGED <<browser, pending, gateVars>>
    /\ UNCHANGED notResolve

ResolveNext ==
    \/ open_all_start
    \/ open_redirect_get
    \/ open_redirect_classify
    \/ open_all_finally
    \/ open_all_stop

(***************************************************************************)
(* api_news_scraper.py: the retry loops async_fetch_description_body,      *)
(* retry_fetch_text and retry_fetch_attribute.                             *)
(***************************************************************************)
\* `await asyncio.sleep(1)` of retry_fetch_text and retry_fetch_attribute, in
\* hundredths of a second.
RETRY_SLEEP == 100

notApi == <<gateVars, scrollVars, extractVars, storeVars, resolveVars>>

\* What one attempt of async_fetch_description_body can meet: the content,
\* status 429, status 502, the maintenance message, or an exception of
\* goto, of the locators or of wait_for_selector.
DescriptionOutcomes ==
    {"content", "status429", "status502", "maintenance", "exception"}

\* What one attempt of retry_fetch_text / retry_fetch_attribute can meet: a
\* non-empty value, no element or an empty value, or an exception.
FieldOutcomes == {"value", "empty", "exception"}

\* `minimum_time * (attempt + 1)`, attempt counting from 0.
backoff_flat(minimum_time, k) == minimum_time

backoff(minimum_time, k) == minimum_time * (k + 1)

\* One pass of `for attempt in range(max_retries)`.
fetch_description_attempt ==
    /\ pc = "rt_loop"
    /\ retryKind = "description"
    /\ tries < maxRetries
    /\ \E o \in DescriptionOutcomes :
        /\ attemptLog' = Append(attemptLog, o)
        /\ IF o = "content"
           THEN /\ delays' = delays
                /\ fetched' = "content"
                /\ pc' = "done"
           ELSE IF o = "exception" /\ ~(tries < maxRetries - 1)
           THEN /\ delays' = delays
                /\ fetched' = "Error fetching content"
                /\ pc' = "done"
           ELSE /\ delays' = Append(delays, backoff(minimumTime, tries))
                /\ fetched' = fetched
                /\ pc' = "rt_loop"
    /\ tries' = tries + 1
    /\ UNCHANGED <<retryKind, minimumTime, poolVars, apiKey, apiData, apiSaved, descCalls>>
    /\ UNCHANGED <<runVars, notApi>>

\* The loop ran out: return f"Error: Failed after {max_retries} retries".
fetch_description_exhausted ==
    /\ pc = "rt_loop"
    /\ retryKind = "description"
    /\ ~(tries < maxRetries)
    /\ fetched' = "Error: Failed after retries"
    /\ pc' = "done"
    /\ UNCHANGED <<retryKind, minimumTime, tries, attemptLog, delays, poolVars,
                   apiKey, apiData, apiSaved, descCalls>>
    /\ UNCHANGED <<runVars, notApi>>

\* One pass of `while attempt < self.max_retries` of retry_fetch_text or
\* retry_fetch_attribute.
retry_fetch_attempt ==
    /\ pc = "rt_loop"
    /\ retryKind \in {"text", "attribute"}
    /\ tries < maxRetries
    /\ \E o \in FieldOutcomes :
        /\ attemptLog' = Append(attemptLog, o)
        /\ IF o = "value"
           THEN /\ delays' = delays
                /\ tries' = tries
                /\ fetched' = "value"
                /\ pc' = "done"
           ELSE /\ delays' = Append(delays, RETRY_SLEEP)
                /\ tries' = tries + 1
                /\ fetched' = fetched
                /\ pc' = "rt_loop"
    /\ UNCHANGED <<retryKind, minimumTime, poolVars, apiKey, apiData, apiSaved, descCalls>>
    /\ UNCHANGED <<runVars, notApi>>

\* The loop ran out: return default_value.
retry_fetch_exhausted ==
    /\ pc = "rt_loop"
    /\ retryKind \in {"text", "attribute"}
    /\ ~(tries < maxRetries)
    /\ fetched' = "default_value"
    /\ pc' = "done"
    /\ UNCHANGED <<retryKind, minimumTime, tries, attemptLog, delays, poolVars,
                   apiKey, apiData, apiSaved, descCalls>>
    /\ UNCHANGED <<runVars, notApi>>

RetryNext ==
    \/ fetch_description_attempt
    \/ fetch_description_exhausted
    \/ retry_fetch_attempt
    \/ retry_fetch_exhausted

(***************************************************************************)
(* api_news_scraper.py: the page pool of async_update_descriptions.        *)
(***************************************************************************)
\* The default of the parameter max_concurrent.
DEFAULT_MAX_CONCURRENT == 4

\* The filter and `if not articles_to_update: return`, then
\* `async with async_playwright() as p:`.  The module neither imports nor
\* defines async_playwright, so the lookup of the name raises NameError
\* before the browser is launched: no page is created (page_pool stays
\* empty), no task is created, and the exception leaves run().
async_update_descriptions ==
    /\ pc = "api_pool"
    /\ IF toUpdate = 0
       THEN /\ pc' = "api_save"
            /\ outcome' = outcome
       ELSE /\ outcome' = "NameError"
            /\ pc' = "done"
    /\ UNCHANGED <<apiVars, browser, pending, finalSaves, notApi>>

(***************************************************************************)
(* api_news_scraper.py: CryptoPanicScraper.run.                            *)
(***************************************************************************)
\* browser = await uc.start(...)
api_run_start ==
    /\ pc = "api_start"
    /\ \E ok \in BOOLEAN :
        IF ok
        THEN /\ browser' = "running"
             /\ outcome' = outcome
             /\ pc' = "api_get"
        ELSE /\ browser' = browser
             /\ outcome' = "StartError"
             /\ pc' = "done"
    /\ UNCHANGED <<pending, finalSaves, apiVars, notApi>>

\* page = await browser.get(...), and the entry into cloudflare_bypass.
api_run_get ==
    /\ pc = "api_get"
    /\ \E nav \in {"ok", "GetError"}, ch \in BOOLEAN :
        IF nav = "ok"
        THEN /\ challenge' = ch
             /\ gateKind' = "api"
             /\ gateCaller' = "api_run"
             /\ attempt' = 0
             /\ pending' = pending
             /\ pc' = "cf_poll"
        ELSE /\ UNCHANGED <<challenge, gateKind, gateCaller, attempt>>
             /\ pending' = nav
             /\ pc' = "api_finally"
    /\ UNCHANGED <<cfMarker, polls, presentPolls, cfSleeps, solves, shots,
                   gateResult>>
    /\ UNCHANGED <<browser, outcome, finalSaves, apiVars>>
    /\ UNCHANGED <<scrollVars, extractVars, storeVars, resolveVars>>

\* The sequences over S of length up to n.
SeqsUpTo(S, n) == UNION {[1..k -> S] : k \in 0..n}

\* What retry_fetch_attribute(article, "a.news-cell.nc-title", "href", "N/A")
\* gives for a row that is not in the cache: the href of the row, which two
\* rows can share, or the default "N/A".
ApiHrefs == {Url(1, "a"), Url(0, "N/A")}

\* After the gate: search_topic and the loading loop of collect_data, whose
\* row query is not guarded and comes before any record is appended.
api_run_collect ==
    /\ pc = "cf_done"
    /\ gateCaller = "api_run"
    /\ IF gateResult # "Ok"
       THEN /\ pending' = gateResult
            /\ pc' = "api_finally"
       ELSE \E q \in {"ok", "QueryError"} :
            /\ pending' = (IF q = "ok" THEN pending ELSE q)
            /\ pc' = (IF q = "ok" THEN "api_rows" ELSE "api_finally")
    /\ UNCHANGED <<browser, outcome, finalSaves, apiVars, notApi>>

\* What ends the work on one row of `for i, article in enumerate(...)`: the
\* append of its record, or an exception that `except Exception` does not
\* catch (KeyboardInterrupt, CancelledError), which leaves collect_data.  A
\* row that is skipped (untitled, already cached, or an Exception logged)
\* changes nothing.
RowOutcomes == {"appended", "KeyboardInterrupt"}

\* collect_data, one row of the loop: self.data.append(article_data) for a
\* titled row whose URL is not a key of the cache loaded at construction,
\* or the end of the rows.
collect_data_row ==
    /\ pc = "api_rows"
    /\ \/ \E o \in RowOutcomes :
              IF o = "appended"
              THEN /\ Len(apiData) < MaxArticles
                   /\ \E href \in ApiHrefs : apiData' = Append(apiData, href)
                   /\ pending' = pending
                   /\ pc' = pc
              ELSE /\ apiData' = apiData
                   /\ pending' = o
                   /\ pc' = "api_finally"
       \/ /\ apiData' = apiData
          /\ pending' = pending
          /\ pc' = "api_finally"
    /\ UNCHANGED <<browser, outcome, finalSaves, retryVars, poolVars, apiKey,
                   apiSaved, descCalls, notApi>>

\* finally: browser.stop(), then the exception in flight, if any.
api_run_finally ==
    /\ pc = "api_finally"
    /\ \E stop \in BOOLEAN :
        IF ~stop
        THEN /\ browser' = browser
             /\ outcome' = "StopError"
             /\ pc' = "done"
        ELSE /\ browser' = "stopped"
             /\ outcome' = (IF pending # "none" THEN pending ELSE outcome)
             /\ pc' = (IF pending # "none" THEN "done" ELSE "api_enrich")
    /\ UNCHANGED <<pending, finalSaves, apiVars, notApi>>

\* rate_time = 0.12 if self.api_key else 3.0, in hundredths of a second.
api_rate_time(key) == IF key THEN 12 ELSE 300

\* How long requests.get takes, in hundredths of a second: less than the
\* rate interval, and more.
Latencies == {5, 400}

\* What requests.get and raise_for_status give: an answer of status 200 with
\* data.description, a requests.RequestException (no connection, or an HTTP
\* error status), and an answer of status 200 without data.description.
JinaResponses == {"description", "RequestException", "KeyError"}

\* fetch_description_body_jina called at time start: when it returns and what
\* it returns ("KeyError": the subscript raises).  The except clauses return
\* before the sleep.
fetch_description_body_jina(start, latency, response, minimum_time) ==
    LET end == start + latency IN
    IF response = "RequestException"
    THEN [start |-> start, returned |-> end,
          result |-> "Error fetching content"]
    ELSE [start |-> start,
          returned |-> (IF end - start < minimum_time
                        THEN start + minimum_time ELSE end),
          result |-> response]

\* One pass of the loop of update_descriptions: the call, the assignment and
\* the sleep, which is measured from start_time, taken once before the loop
\* (time 0).  A KeyError leaves the loop and run().
update_descriptions ==
    /\ pc = "ud_loop"
    /\ IF Len(descCalls) = Len(apiData)
       THEN /\ descCalls' = descCalls
            /\ outcome' = outcome
            /\ pc' = "api_save"
       ELSE \E latency \in Latencies, response \in JinaResponses :
            LET rate_time == api_rate_time(apiKey)
                start_time == 0
                start == IF descCalls = <<>> THEN start_time
                         ELSE descCalls[Len(descCalls)].resumed
                call == fetch_description_body_jina(start, latency, response,
                                                    rate_time)
                elapsed_time == call.returned - start_time
                resumed == IF call.result # "KeyError" /\ elapsed_time < rate_time
                           THEN call.returned + (rate_time - elapsed_time)
                           ELSE call.returned
            IN  /\ descCalls' = Append(descCalls,
                                       [start |-> call.start,
                                        returned |-> call.returned,
                                        result |-> call.result,
                                        resumed |-> resumed])
                /\ outcome' = (IF call.result = "KeyError" THEN "KeyError"
                               ELSE outcome)
                /\ pc' = (IF call.result = "KeyError" THEN "done" ELSE pc)
    /\ UNCHANGED <<retryVars, poolVars, apiKey, apiData, apiSaved>>
    /\ UNCHANGED <<browser, pending, finalSaves, notApi>>

\* `if self.data:` merge_data(), then update_descriptions with an API key
\* and async_update_descriptions without one.
api_run_enrich ==
    /\ pc = "api_enrich"
    /\ IF apiData = <<>>
       THEN /\ outcome' = "returned"
            /\ pc' = "done"
            /\ toUpdate' = toUpdate
       ELSE IF apiKey
       THEN /\ outcome' = outcome
            /\ pc' = "ud_loop"
            /\ toUpdate' = toUpdate
       ELSE /\ toUpdate' \in 0..Len(apiData)
            /\ outcome' = outcome
            /\ pc' = "api_pool"
    /\ UNCHANGED <<pagePool, retryVars, apiKey, apiData, apiSaved, descCalls>>
    /\ UNCHANGED <<browser, pending, finalSaves, notApi>>

\* merge_data: self.cached_data[article['URL']] = article for each collected
\* record; the keys it assigns.
merge_data(data) == {data[i] : i \in 1..Len(data)}

\* self.save_data(format="json"): open(self.file_path, 'w') and
\* json.dump(self.cached_data, f), which holds one entry for each URL merged.
api_run_save ==
    /\ pc = "api_save"
    /\ \E w \in {"ok", "OSError"} :
        IF w = "ok"
        THEN /\ apiSaved' = Cardinality(merge_data(apiData))
             /\ outcome' = "returned"
        ELSE /\ apiSaved' = apiSaved
             /\ outcome' = "OSError"
    /\ pc' = "done"
    /\ UNCHANGED <<retryVars, poolVars, apiKey, apiData, descCalls>>
    /\ UNCHANGED <<browser, pending, finalSaves, notApi>>

ApiRunNext ==
    \/ api_run_start
    \/ api_run_get
    \/ ApiGateNext
    \/ api_run_collect
    \/ collect_data_row
    \/ api_run_finally
    \/ api_run_enrich
    \/ update_descriptions
    \/ async_update_descriptions
    \/ api_run_save

(***************************************************************************)
(* Initial states.                                                         *)
(***************************************************************************)
\* Rows of the page: two rows with the same href and different titles, a row
\* with another href, a row without a title, a row without an href.
Rows == {Row("A", Url(1, "a")), Row("B", Url(1, "a")), Row("C", Url(2, "b")),
         Row("", Url(2, "b")), Row("A", NoUrl)}

\* A cache of an earlier pass: one record, under the href of the first rows.
OldCache == Put(EmptyCache, Url(1, "a"), PlainArticle("Old", Url(1, "a")))

StartCaches == {EmptyCache, OldCache}

\* The cache file found at process start.
StartFiles == {File("missing", EmptyCache), File("corrupt", EmptyCache),
               File("undecodable", EmptyCache),
               File("ok", EmptyCache), File("ok", OldCache)}

GateIdle ==
    /\ challenge = FALSE
    /\ GateStart("news", "run")

ScrollStart ==
    /\ staleCount = 0
    /\ previousCount = 0
    /\ iter = 0
    /\ markerSeen = FALSE
    /\ changes = 0
    /\ lastChange = 0

ExtractStart ==
    /\ cacheAtEntry = cache
    /\ newSinceLastSave = 0
    /\ raw = "none"
    /\ idx = 0
    /\ newCount = 0
    /\ sem = 0
    /\ task = <<>>
    /\ results = <<>>
    /\ passes = <<>>

StoreStart ==
    /\ file = fileAtStart
    /\ loadOutcome = load_outcome(fileAtStart, FALSE)
    /\ ckptSaves = 0
    /\ lastSave = "none"

\* The locals of an enrichment pass at its start.
ResolveStart ==
    /\ pos = 0
    /\ redirectedUrls = EmptyCache
    /\ contentMap = EmptyCache
    /\ fetchLog = EmptyCache
    /\ observed = EmptyCache
    /\ unsavedCount = 0
    /\ recent = <<>>
    /\ upserts = EmptyCache
    /\ clock = 0
    /\ getStarts = <<>>

\* No retry loop is running.
RetryIdle ==
    /\ retryKind = "none"
    /\ minimumTime = 0
    /\ tries = 0
    /\ attemptLog = <<>>
    /\ delays = <<>>
    /\ fetched = "none"

\* No page pool exists.
PoolIdle ==
    /\ toUpdate = 0
    /\ pagePool = {}

\* The api scraper is not running.
ApiIdle ==
    /\ RetryIdle
    /\ PoolIdle
    /\ apiKey = FALSE
    /\ apiData = <<>>
    /\ apiSaved = 0
    /\ descCalls = <<>>

\* No enrichment pass: an empty batch, an empty sink and empty dicts.
ResolveIdle ==
    /\ batch = <<>>
    /\ cachedDf = EmptyCache
    /\ sinkRows = EmptyCache
    /\ savedIndex = EmptyCache
    /\ savedContent = EmptyCache
    /\ jinaKey = FALSE
    /\ ResolveStart

RunIdle ==
    /\ browser = "running"
    /\ pending = "none"
    /\ outcome = "running"
    /\ finalSaves = 0

\* The gate alone, entered from run (both scrapers) or from _open_redirect_page.
InitGate ==
    /\ pc = "cf_poll"
    /\ challenge \in BOOLEAN
    /\ \E kc \in {<<"news", "run">>, <<"news", "redirect">>, <<"api", "run">>} :
          GateStart(kc[1], kc[2])
    /\ maxRetries = 1
    /\ rendered = 0
    /\ ScrollStart
    /\ forceUpdate = FALSE
    /\ dom = <<>>
    /\ cache = EmptyCache
    /\ maxConcurrency = DEFAULT_MAX_CONCURRENCY
    /\ queryFaults = {}
    /\ ExtractStart
    /\ sourcesFile = "ok"
    /\ laterPass = FALSE
    /\ fileAtStart = File("missing", EmptyCache)
    /\ StoreStart
    /\ RunIdle
    /\ ResolveIdle
    /\ ApiIdle

\* The scroll loop alone, on a page of up to MaxDom rows.
InitScroll ==
    /\ pc = "sc_loop"
    /\ GateIdle
    /\ maxRetries \in 1..MaxRetriesBound
    /\ rendered = 0
    /\ ScrollStart
    /\ forceUpdate = FALSE
    /\ dom \in {[i \in 1..n |-> Row("A", Url(i, "a"))] : n \in 0..MaxDom}
    /\ cache = EmptyCache
    /\ maxConcurrency = DEFAULT_MAX_CONCURRENCY
    /\ queryFaults = {}
    /\ ExtractStart
    /\ sourcesFile = "ok"
    /\ laterPass = FALSE
    /\ fileAtStart = File("missing", EmptyCache)
    /\ StoreStart
    /\ RunIdle
    /\ ResolveIdle
    /\ ApiIdle

\* Extraction alone, on a converged page, with at most one row whose element
\* queries raise.
InitExtract ==
    /\ pc = "bulk"
    /\ GateIdle
    /\ maxRetries = 1
    /\ dom \in SeqsUpTo(Rows, MaxDom)
    /\ rendered = Len(dom)
    /\ ScrollStart
    /\ forceUpdate \in BOOLEAN
    /\ cache \in StartCaches
    /\ maxConcurrency \in {1, 2}
    /\ queryFaults \in {F \in FaultSets(Len(dom)) : Cardinality(F) <= 1}
    /\ ExtractStart
    /\ sourcesFile = "ok"
    /\ laterPass = FALSE
    /\ fileAtStart = (IF cache = EmptyCache THEN File("missing", EmptyCache)
                      ELSE File("ok", cache))
    /\ StoreStart
    /\ RunIdle
    /\ ResolveIdle
    /\ ApiIdle

\* Extraction of a long page of distinct articles, for the checkpoints, with
\* one or two fallback tasks in flight.
InitCheckpoint ==
    /\ pc = "bulk"
    /\ GateIdle
    /\ maxRetries = 1
    /\ dom = [i \in 1..MaxBulk |-> Row("A", Url(i, "a"))]
    /\ rendered = Len(dom)
    /\ ScrollStart
    /\ forceUpdate \in BOOLEAN
    /\ cache = EmptyCache
    /\ maxConcurrency \in {1, 2}
    /\ queryFaults \in {{}, {1}}
    /\ ExtractStart
    /\ sourcesFile = "ok"
    /\ laterPass = FALSE
    /\ fileAtStart \in {File("missing", EmptyCache), File("ok", EmptyCache)}
    /\ StoreStart
    /\ RunIdle
    /\ ResolveIdle
    /\ ApiIdle

\* Rows of the page of the repeated extraction: two plain rows, a row without
\* a title, a row whose href has whitespace around the path, and a row with
\* the numeric id of the first and another slug.
IdemRows == {Row("A", Url(1, "a")), Row("C", Url(2, "b")), Row("", Url(2, "b")),
             Row("D", PaddedUrl(3, "c")), Row("E", Url(1, "e"))}

\* Extraction run twice over the same converged page, one fallback task at a
\* time.
InitIdem ==
    /\ pc = "bulk"
    /\ GateIdle
    /\ maxRetries = 1
    /\ dom \in SeqsUpTo(IdemRows, MaxRunDom)
    /\ rendered = Len(dom)
    /\ ScrollStart
    /\ forceUpdate \in BOOLEAN
    /\ cache \in StartCaches
    /\ maxConcurrency = 1
    /\ queryFaults \in FaultSets(Len(dom))
    /\ ExtractStart
    /\ sourcesFile = "ok"
    /\ laterPass = FALSE
    /\ fileAtStart = (IF cache = EmptyCache THEN File("missing", EmptyCache)
                      ELSE File("ok", cache))
    /\ StoreStart
    /\ RunIdle
    /\ ResolveIdle
    /\ ApiIdle

\* Title attributes of the vote nodes of a row: none; "5 Bullish votes" and
\* "votes"; "5 Bullish votes", "5 votes", a node without title and
\* "12 Important vote"; "3 Bullish Votes", "7 Bullish votes" and
\* "9 Very Bullish votes".
VoteTitles ==
    {<<>>,
     << <<Num(5), Word("Bullish"), Word("votes")>>, <<Word("votes")>> >>,
     << <<Num(5), Word("Bullish"), Word("votes")>>, <<Num(5), Word("votes")>>,
        <<>>, <<Num(12), Word("Important"), Word("vote")>> >>,
     << <<Num(3), Word("Bullish"), Word("Votes")>>,
        <<Num(7), Word("Bullish"), Word("votes")>>,
        <<Num(9), Word("Very"), Word("Bullish"), Word("votes")>> >>}

\* Rows with and without each child the extraction queries: a missing title,
\* a missing or whitespace-only href, a time element with and without its
\* datetime attribute, a source element with and without text, the icons,
\* ticker links with and without text, matching and non-matching vote titles.
Elements ==
    {Element(t, u, tm, so, ic, tk, vo) :
        t \in {<<>>, <<"A">>},
        u \in {NoUrl, Url(1, "a"), PaddedUrl(0, "")},
        tm \in {<<>>, <<[datetime |-> "2024-01-01", text |-> "1h"]>>,
                <<[datetime |-> "", text |-> "1h"]>>},
        so \in {<<>>, <<"x.com">>, <<"">>},
        ic \in SUBSET {"twitter", "youtube"},
        tk \in {<<>>, <<"BTC", "ETH">>, <<"">>},
        vo \in VoteTitles}

\* Extraction of a page of one row, by the bulk script or by the fallback.
InitParse ==
    /\ pc = "bulk"
    /\ GateIdle
    /\ maxRetries = 1
    /\ dom \in {<<el>> : el \in Elements}
    /\ rendered = Len(dom)
    /\ ScrollStart
    /\ forceUpdate = FALSE
    /\ cache = EmptyCache
    /\ maxConcurrency = 1
    /\ queryFaults = {}
    /\ ExtractStart
    /\ sourcesFile = "ok"
    /\ laterPass = FALSE
    /\ fileAtStart = File("missing", EmptyCache)
    /\ StoreStart
    /\ RunIdle
    /\ ResolveIdle
    /\ ApiIdle

\* A whole pass of run(), from construction (the cache is loaded in __init__;
\* when the load raises there is no scraper and nothing runs).
InitRun ==
    /\ challenge \in BOOLEAN
    /\ GateStart("news", "run")
    /\ maxRetries = 1
    /\ rendered = 0
    /\ ScrollStart
    /\ forceUpdate \in BOOLEAN
    /\ dom \in SeqsUpTo({Row("B", Url(1, "a")), Row("C", Url(2, "b"))}, MaxRunDom)
    /\ sourcesFile = "ok"
    /\ laterPass = FALSE
    /\ fileAtStart \in StartFiles
    /\ \E fault \in BOOLEAN :
          /\ cache = load_cache(fileAtStart, fault)
          /\ loadOutcome = load_outcome(fileAtStart, fault)
    /\ IF loadOutcome = "UnicodeDecodeError"
       THEN /\ pc = "done"
            /\ outcome = loadOutcome
       ELSE /\ pc = "start"
            /\ outcome = "running"
    /\ \E mc \in 0..1 : maxConcurrency = effective_max_concurrency(mc)
    /\ queryFaults \in {F \in {{}, {1}} : F \subseteq 1..Len(dom)}
    /\ ExtractStart
    /\ file = fileAtStart
    /\ ckptSaves = 0
    /\ lastSave = "none"
    /\ browser = "none"
    /\ pending = "none"
    /\ finalSaves = 0
    /\ ResolveIdle
    /\ ApiIdle

\* Source domains of the records: two that normalize to the key of a fetched
\* config, one that normalizes to no key because "www." is tried before
\* "news.", and one whose config is marked skip.
Sources == <<<<"news", "b.com">>, <<"a.com">>, <<"en", "news", "a.com">>,
            <<"news", "www", "a.com">>>>

\* The batches of up to n sources, up to the order of the records: the
\* records of a batch are handled alike wherever they stand.
SourceBatches(n) ==
    {[i \in 1..Len(f) |-> Sources[f[i]]] :
        f \in {g \in SeqsUpTo(1..Len(Sources), n) :
                  \A i \in 1..(Len(g) - 1) : g[i] <= g[i + 1]}}

\* The cache file of a pass over the sources srcs: a link record for each,
\* or, for no source, one record that is not a link.
BatchRecords(srcs) ==
    IF srcs = <<>>
    THEN Put(EmptyCache, Url(1, "a"),
             ArticleData("title", Url(1, "a"), build_redirect_url(Url(1, "a")),
                         "d1", <<"twitter.com">>, "twitter", <<>>, EmptyVotes))
    ELSE [u \in {Url(i, "a") : i \in 1..Len(srcs)} |->
             ArticleData("title", u, build_redirect_url(u), "d1", srcs[u.id],
                         "link", <<>>, EmptyVotes)]

\* An enrichment pass over a batch of up to MaxBatch records without content,
\* before the test of the batch: the cache file holds the records and was
\* loaded at construction, the sink holds a row without content for each
\* link record, and cached_df was read from the file when the batch is not
\* empty.
InitResolve ==
    /\ pc = "rd_start"
    /\ GateIdle
    /\ maxRetries = 1
    /\ rendered = 0
    /\ ScrollStart
    /\ forceUpdate = FALSE
    /\ dom = <<>>
    /\ maxConcurrency = DEFAULT_MAX_CONCURRENCY
    /\ queryFaults = {}
    /\ sourcesFile = "ok"
    /\ laterPass = FALSE
    /\ \E srcs \in SourceBatches(MaxBatch) :
          /\ fileAtStart = File("ok", BatchRecords(srcs))
          /\ batch = [i \in 1..Len(srcs) |->
                         [redirect_url |-> build_redirect_url(Url(i, "a")),
                          source |-> srcs[i]]]
    /\ cache = load_cache(fileAtStart, FALSE)
    /\ ExtractStart
    /\ StoreStart
    /\ browser = "none"
    /\ pending = "none"
    /\ outcome = "running"
    /\ finalSaves = 0
    /\ cachedDf = (IF batch = <<>> THEN EmptyCache
                   ELSE read_cached_df(fileAtStart))
    /\ sinkRows = cachedDf
    /\ savedIndex = EmptyCache
    /\ savedContent = EmptyCache
    /\ jinaKey = FALSE
    /\ ResolveStart
    /\ ApiIdle

\* The news scraper is idle: what the api scraper's runs leave untouched.
NewsIdle ==
    /\ GateIdle
    /\ rendered = 0
    /\ ScrollStart
    /\ forceUpdate = FALSE
    /\ dom = <<>>
    /\ cache = EmptyCache
    /\ queryFaults = {}
    /\ ExtractStart
    /\ sourcesFile = "ok"
    /\ laterPass = FALSE
    /\ fileAtStart = File("missing", EmptyCache)
    /\ StoreStart
    /\ browser = "none"
    /\ pending = "none"
    /\ outcome = "running"
    /\ finalSaves = 0
    /\ ResolveIdle

\* CryptoPanicScraper.run(), with and without an API key.
InitApi ==
    /\ pc = "api_start"
    /\ NewsIdle
    /\ maxRetries = 1
    /\ maxConcurrency = DEFAULT_MAX_CONCURRENT
    /\ RetryIdle
    /\ PoolIdle
    /\ apiKey \in BOOLEAN
    /\ apiData = <<>>
    /\ apiSaved = 0
    /\ descCalls = <<>>

\* A call of one of the three retry loops: max_retries from 0 to
\* MaxRetriesBound, minimum_time 0.12 s or 3 s.
InitRetry ==
    /\ pc = "rt_loop"
    /\ NewsIdle
    /\ maxConcurrency = DEFAULT_MAX_CONCURRENCY
    /\ maxRetries \in 0..MaxRetriesBound
    /\ retryKind \in {"description", "text", "attribute"}
    /\ minimumTime \in {12, 300}
    /\ tries = 0
    /\ attemptLog = <<>>
    /\ delays = <<>>
    /\ fetched = "none"
    /\ PoolIdle
    /\ apiKey = FALSE
    /\ apiData = <<>>
    /\ apiSaved = 0
    /\ descCalls = <<>>

\* The cache file of the selection: two link records of cached sources, a
\* record that is not a link, and a link record of an unknown source.
SelectRecords ==
    LET rec(id, source, source_type) ==
            ArticleData("title", Url(id, "a"), build_redirect_url(Url(id, "a")),
                        "d1", source, source_type, <<>>, EmptyVotes) IN
    [u \in {Url(id, "a") : id \in 1..4} |->
        CASE u.id = 1 -> rec(1, <<"www", "a.com">>, "link")
          [] u.id = 2 -> rec(2, <<"en", "a.com">>, "link")
          [] u.id = 3 -> rec(3, <<"twitter.com">>, "twitter")
          [] OTHER -> rec(4, <<"c.com">>, "link")]

\* What the sink holds for a link record before the first resolution: no
\* row, or the row an earlier call appended from the loaded records, with the
\* stripped source and nothing resolved.
SinkRowsBefore(source) ==
    {<<>>, <<DfRow(remove_site_prefixes(source), Null, Null)>>}

\* The first enrichment pass, from its first statement: the cache file,
\* loaded at construction, a sink that is empty or holds the appended row of
\* the first record, no redirect index and no content cache.  The pass after
\* it starts from what it left (next_pass).
InitSelect ==
    /\ pc = "rd_select"
    /\ GateIdle
    /\ maxRetries = 1
    /\ rendered = 0
    /\ ScrollStart
    /\ forceUpdate = FALSE
    /\ dom = <<>>
    /\ maxConcurrency = DEFAULT_MAX_CONCURRENCY
    /\ queryFaults = {}
    /\ sourcesFile \in {"ok", "missing"}
    /\ laterPass = FALSE
    /\ fileAtStart \in {File("ok", SelectRecords), File("missing", EmptyCache)}
    /\ cache = load_cache(fileAtStart, FALSE)
    /\ ExtractStart
    /\ StoreStart
    /\ browser = "none"
    /\ pending = "none"
    /\ outcome = "running"
    /\ finalSaves = 0
    /\ batch = <<>>
    /\ cachedDf = EmptyCache
    /\ \E r1 \in SinkRowsBefore(<<"www", "a.com">>) :
          sinkRows = [r \in {Url(id, "click/") : id \in {i \in {1} : r1 # <<>>}} |->
                         r1[1]]
    /\ savedContent = EmptyCache
    /\ savedIndex = EmptyCache
    /\ jinaKey \in BOOLEAN
    /\ ResolveStart
    /\ ApiIdle

(***************************************************************************)
(* Specifications.                                                         *)
(***************************************************************************)
CheckpointNext == ExtractNext

IdemNext ==
    \/ ExtractNext
    \/ extract_again

EnrichNext ==
    \/ ResolveNext
    \/ NewsGateNext

Next ==
    \/ RunNext
    \/ NewsGateNext
    \/ ScrollNext
    \/ ExtractNext

SpecGate == InitGate /\ [][GateNext]_vars /\ WF_vars(GateNext)

SpecScroll == InitScroll /\ [][ScrollNext]_vars

SpecExtract == InitExtract /\ [][ExtractNext]_vars /\ WF_vars(ExtractNext)

SpecCheckpoint == InitCheckpoint /\ [][CheckpointNext]_vars

SpecIdem == InitIdem /\ [][IdemNext]_vars

SpecParse == InitParse /\ [][ExtractNext]_vars

SpecResolve == InitResolve /\ [][EnrichNext]_vars /\ WF_vars(EnrichNext)

SpecRetry == InitRetry /\ [][RetryNext]_vars /\ WF_vars(RetryNext)

SpecApi == InitApi /\ [][ApiRunNext]_vars

\* open_all_redirect_urls is called again, by the same or a later process:
\* its locals are new, the sink, the redirect index, the content cache and
\* the files are as the pass before left them.
next_pass ==
    /\ pc = "done"
    /\ ~laterPass
    /\ laterPass' = TRUE
    /\ pc' = "rd_select"
    /\ batch' = <<>>
    /\ cachedDf' = EmptyCache
    /\ pos' = 0
    /\ redirectedUrls' = EmptyCache
    /\ contentMap' = EmptyCache
    /\ fetchLog' = EmptyCache
    /\ observed' = EmptyCache
    /\ unsavedCount' = 0
    /\ recent' = <<>>
    /\ upserts' = EmptyCache
    /\ clock' = 0
    /\ getStarts' = <<>>
    /\ browser' = "none"
    /\ pending' = "none"
    /\ outcome' = "running"
    /\ fresh_gate(FALSE)
    /\ UNCHANGED <<sinkRows, savedIndex, savedContent, jinaKey, finalSaves>>
    /\ UNCHANGED <<file, fileAtStart, sourcesFile, loadOutcome, ckptSaves,
                   lastSave>>
    /\ UNCHANGED <<scrollVars, extractVars, apiVars>>

SelectNext ==
    \/ open_all_select
    \/ EnrichNext
    \/ next_pass

SpecSelect == InitSelect /\ [][SelectNext]_vars

Spec == InitRun /\ [][Next]_vars

(***************************************************************************)
(* Properties.                                                             *)
(***************************************************************************)
GateDone == pc = "cf_done"

\* C1: the gate makes at most 5 marker polls and at most 5 rounds of sleep
\* then solve, it always terminates, and it ends with ChallengeFailed, after
\* exactly one screenshot, exactly when the marker was found on all 5 polls;
\* every other run ends with Ok.
C1_GateBoundedAndExact ==
    /\ [](/\ polls <= 5
          /\ cfSleeps <= 5
          /\ solves <= 5
          /\ solves <= cfSleeps
          /\ GateDone =>
                /\ gateResult \in {"Ok", "ChallengeFailed"}
                /\ (gateResult = "ChallengeFailed") <=> (presentPolls = 5)
                /\ (gateResult = "ChallengeFailed") => (shots = 1)
                /\ (gateResult = "Ok") => (shots = 0))
    /\ <>GateDone

\* C2: a poll that finds the marker absent ends the gate with Ok at once, and
\* no sleep, solve or further poll happens once the gate has returned Ok.
C2_AbsentPollReturnsOk ==
    [][/\ (polls' = polls + 1 /\ ~cfMarker') =>
             /\ pc' = "cf_done"
             /\ gateResult' = "Ok"
             /\ cfSleeps' = cfSleeps
             /\ solves' = solves
       /\ (gateResult = "Ok") =>
             /\ cfSleeps' = cfSleeps
             /\ solves' = solves
             /\ polls' = polls]_vars

C2_Witness ==
    /\ GateDone
    /\ gateResult = "Ok"
    /\ polls = 3
    /\ presentPolls = 2
    /\ solves = 2

ScrollStopped == pc = "bulk"

\* C3: in every iteration the stale streak is incremented when the row count
\* equals the previous iteration's and reset to zero otherwise; the loop is
\* left exactly when the streak reaches maxRetries or the all-loaded marker
\* is observed; and 0 <= staleCount <= maxRetries in every state.
C3_StaleStreakRule ==
    /\ [](/\ 0 <= staleCount
          /\ staleCount <= maxRetries
          /\ (pc = "sc_loop") => (staleCount < maxRetries /\ ~markerSeen)
          /\ ScrollStopped => (staleCount = maxRetries \/ markerSeen))
    /\ [][(iter' = iter + 1) =>
             /\ staleCount' = (IF rendered' = previousCount THEN staleCount + 1 ELSE 0)
             /\ (pc' # "sc_loop") <=> (staleCount' = maxRetries \/ markerSeen')]_vars

C3_Witness ==
    /\ ScrollStopped
    /\ ~markerSeen
    /\ maxRetries = 2
    /\ staleCount = 2
    /\ changes = 2
    /\ iter = 5

\* C4: on a page whose row count changes in each of the first k iterations
\* and never afterwards, the loop runs at most k + maxRetries iterations, and
\* exactly that many when it is left without the marker having been seen.
C4_StopsAfterKPlusMaxRetries ==
    (lastChange = changes) =>
        /\ iter <= changes + maxRetries
        /\ (ScrollStopped /\ ~markerSeen) => (iter = changes + maxRetries)

C4_Witness ==
    /\ ScrollStopped
    /\ ~markerSeen
    /\ maxRetries = 5
    /\ changes = 3
    /\ lastChange = 3
    /\ iter = 8

\* C5: once the browser session has been started, run() calls _save_cache on
\* every exit path, whether or not stopping the session succeeds.
C5_SaveOnEveryExit ==
    (pc = "done" /\ browser # "none") => (finalSaves >= 1)

\* Records of the in-memory cache that the durable file does not hold.
Unsaved ==
    {u \in DOMAIN cache :
        ~(file.state = "ok" /\ u \in DOMAIN file.records /\ file.records[u] = cache[u])}

\* C6: whatever the outcomes of the checkpoint saves, at most one checkpoint
\* interval (50) of in-memory records is absent from the durable file.
C6_UnsavedAtMostInterval == Cardinality(Unsaved) <= 50

\* C7: with force-refresh off, every record the cache file held at process
\* start is still in the file after the final save of the pass, whatever the
\* outcome of the initial load.
C7_NoRecordLost ==
    (pc \in {"finally_unique", "done"} /\ finalSaves >= 1 /\ lastSave = "ok" /\ ~forceUpdate) =>
        \A u \in DOMAIN fileAtStart.records :
            /\ file.state = "ok"
            /\ u \in DOMAIN file.records
            /\ file.records[u] = fileAtStart.records[u]

\* The merge of the rows in document order, one row after the other.
RECURSIVE SeqMerge(_, _, _)
SeqMerge(c, rows, force) ==
    IF rows = <<>> THEN c
    ELSE LET result == parse_article(Head(rows), FALSE)
             merged == IF result = None THEN c
                       ELSE IF result.url \in DOMAIN c /\ ~force THEN c
                       ELSE Put(c, result.url, result)
         IN  SeqMerge(merged, Tail(rows), force)

FallbackReturned == pc = "collected" /\ raw # "list"

\* C8: the cache after concurrent fallback extraction is the same for every
\* completion order of the tasks (hence that of the in-order merge), also
\* when two rows parse to the same url.
C8_MergeDeterministic ==
    FallbackReturned => (cache = SeqMerge(cacheAtEntry, articles, forceUpdate))

InFlight == {i \in DOMAIN task : task[i] = "parsing"}

\* C9: at most maxConcurrency tasks are inside their element-query section at
\* any moment; while a task is unfinished some task can take a step; and the
\* fallback returns only after every row's task has run and completed.
C9_BoundedFanOut ==
    /\ Cardinality(InFlight) <= maxConcurrency
    /\ (pc = "tasks" /\ \E i \in DOMAIN task : task[i] # "done") =>
          \E i \in DOMAIN task : ENABLED (limited_parse_enter(i) \/ parse_and_store(i))
    /\ FallbackReturned =>
          /\ DOMAIN task = 1..Len(articles)
          /\ \A i \in DOMAIN task : task[i] = "done"

C9_Witness ==
    /\ pc = "tasks"
    /\ Cardinality(InFlight) = maxConcurrency
    /\ \E i \in DOMAIN task : task[i] = "waiting"
    /\ \E i \in DOMAIN task : task[i] = "done"

\* C10: without force-refresh no step of extraction, bulk or fallback,
\* replaces, modifies or removes a record whose url is already in the cache.
C10_CachedRecordsKept ==
    [][~forceUpdate =>
          \A u \in DOMAIN cache : u \in DOMAIN cache' /\ cache'[u] = cache[u]]_vars

C10_Witness ==
    /\ pc = "collected"
    /\ ~forceUpdate
    /\ cacheAtEntry = OldCache
    /\ \E i \in 1..Len(articles) : articles[i] = Row("A", Url(1, "a"))
    /\ cache[Url(1, "a")] = PlainArticle("Old", Url(1, "a"))

SecondPass == Len(passes) = 1

\* C11 as stated: a second extraction pass over the same page with the cache
\* the first pass left, force-refresh off, stores no record, reports a
\* new-record count of zero and leaves the cache as it found it.
C11_SecondRunStoresNothing ==
    (SecondPass /\ ~forceUpdate) =>
        /\ cache = cacheAtEntry
        /\ (pc = "collected") => (newCount = 0)

\* The row has no title text or no href.
RowLacks(el) ==
    \/ el.title = <<>>
    \/ el.title[1] \in {"", " "}
    \/ el.url = NoUrl

Quiet ==
    /\ cache' = cache
    /\ newSinceLastSave' = newSinceLastSave
    /\ file' = file
    /\ pending' = pending
    /\ pc' = pc

\* C12: every record of the cache has a non-empty title and a non-empty url
\* and is stored under its own url; and the step that handles a row without
\* title or url, in the bulk loop or in a fallback task, changes neither the
\* cache nor the since-last-save counter nor the file, and raises nothing.
C12_StoredRecordsWellFormed ==
    /\ [](\A u \in DOMAIN cache :
             /\ cache[u].title # ""
             /\ cache[u].url # NoUrl
             /\ cache[u].url = u)
    /\ [][/\ (pc = "bulk_loop" /\ idx' = idx + 1 /\ RowLacks(articles[idx + 1])) => Quiet
          /\ \A i \in DOMAIN task :
                (task[i] = "parsing" /\ pc' = "tasks" /\ task'[i] = "done"
                 /\ RowLacks(articles[i])) => Quiet]_vars

C12_Witness ==
    /\ pc = "collected"
    /\ articles = <<Row("", Url(2, "b")), Row("A", NoUrl), Row("C", Url(2, "b"))>>
    /\ cacheAtEntry = EmptyCache
    /\ DOMAIN cache = {Url(2, "b")}
    /\ cache[Url(2, "b")].title = "C"
    /\ newSinceLastSave = 1

\* C13: the fallback runs exactly when the bulk call raised or returned a
\* non-list (an empty list does not start it), and no failure of bulk
\* extraction, one while its items are processed included, leaves the pass as
\* an exception.
C13_FallbackIffBulkFailedNothingSurfaced ==
    /\ (pc \in {"fallback", "tasks"}) => (raw \in {"raise", "nonlist"})
    /\ (raw \in {"raise", "nonlist"}) => (pc \in {"fallback", "tasks", "collected", "finally_stop"})
    /\ (raw \in {"list", "badlist"}) => (pending = "none")

\* What the bulk loop makes of a row: nothing, or the record it stores.
BulkRecord(el) ==
    LET item == extract_all_js(el) IN
    IF missing_title_or_url(item.title, item.url) THEN None
    ELSE article_from_item(item)

\* C14: for every row of an extracted page the bulk strategy and the
\* per-element fallback produce the same record, field by field, and drop the
\* same rows.
C14_BulkEqualsFallback ==
    (pc = "collected") =>
        \A i \in 1..Len(articles) :
            BulkRecord(articles[i]) = parse_article(articles[i], FALSE)

\* C15: whatever the order of the writers (bulk loop, concurrent fallback
\* tasks), a record is stored, counted and checkpointed in one step: the
\* since-last-save counter stays within 0..49, the step that stores the 50th
\* record since the last save is the one that saves and resets the counter,
\* and k stored records have triggered exactly k \div 50 checkpoint saves.
C15_CheckpointCounter ==
    /\ [](/\ newSinceLastSave \in 0..49
          /\ ckptSaves = Cardinality(DOMAIN cache) \div 50)
    /\ [][(cache' # cache) =>
             /\ Cardinality(DOMAIN cache') = Cardinality(DOMAIN cache) + 1
             /\ newSinceLastSave' = (newSinceLastSave + 1) % 50
             /\ ckptSaves' = ckptSaves + (IF newSinceLastSave = 49 THEN 1 ELSE 0)
             /\ (ckptSaves' = ckptSaves) => (file' = file)]_vars

\* C16: when the gate ends with ChallengeFailed, run() performs no scroll
\* iteration and no extraction, stops the session, saves the cache, and then
\* raises that gate failure, not an error of the cleanup, to its caller.
C16_GateFailurePropagates ==
    (pc = "done" /\ gateResult = "ChallengeFailed") =>
        /\ iter = 0
        /\ raw = "none"
        /\ browser = "stopped"
        /\ finalSaves = 1
        /\ outcome = "ChallengeFailed"

\* C17: only gate exhaustion is fatal: once the gate has returned Ok no
\* exception leaves the scroll loop or the extraction, and run() returns.
C17_OnlyGateExhaustionFatal ==
    (gateResult = "Ok") =>
        /\ pending = "none"
        /\ (pc = "done") => (outcome = "returned")


(***************************************************************************)
(* The redirect resolver and the enrichment fetcher.                       *)
(***************************************************************************)
\* The redirect url of the i-th record of the batch.
RedirectOf(i) == batch[i].redirect_url

\* The records _open_redirect_page has returned for.
Handled == 1..pos

\* The i-th record was resolved: the navigation and the gate succeeded and
\* the marker query answered.
ResolvedRecord(i) == observed[RedirectOf(i)].query \in {"marker", "clear"}

\* C18: for each resolved record exactly one of three cases applies.  The
\* challenge-page marker is present after navigation: the sentinel tag is
\* recorded, the content is null and the fetcher is not invoked.  The url of
\* the page starts with the origin base: the final url is recorded, the
\* content is null and the fetcher is not invoked.  Otherwise the final url
\* is recorded and the fetcher is invoked exactly once for the record.
C18_RedirectClassification ==
    \A i \in Handled :
        LET r == RedirectOf(i)
            obs == observed[r] IN
        ResolvedRecord(i) =>
            IF obs.query = "marker"
            THEN /\ redirectedUrls[r] = CloudflarePageError
                 /\ contentMap[r] = Null
                 /\ fetchLog[r].calls = 0
            ELSE IF obs.final[1] = BASE_URL
            THEN /\ redirectedUrls[r] = Resolved(obs.final)
                 /\ contentMap[r] = Null
                 /\ fetchLog[r].calls = 0
            ELSE /\ redirectedUrls[r] = Resolved(obs.final)
                 /\ fetchLog[r].calls = 1

\* Two handled records, the first a challenge page and the second redirected
\* off the origin, or the first still on the origin and the second fetched.
C18_Witness ==
    /\ pos = 2
    /\ observed[RedirectOf(1)].query \in {"marker", "clear"}
    /\ observed[RedirectOf(1)].query = "clear" =>
           observed[RedirectOf(1)].final[1] = BASE_URL
    /\ fetchLog[RedirectOf(1)].calls = 0
    /\ observed[RedirectOf(2)].query = "clear"
    /\ observed[RedirectOf(2)].final[1] # BASE_URL
    /\ fetchLog[RedirectOf(2)].calls = 1

\* Some key of the source config normalizes to the normalized source, and
\* the first such key.
Matching(source) ==
    {k \in 1..Len(SourcesConfig) :
        strip_single_prefix(SourcesConfig[k].key) = strip_single_prefix(source)}

FirstMatching(source) ==
    CHOOSE k \in Matching(source) : \A j \in Matching(source) : k <= j

\* C19: the fetcher issues no HTTP request and returns null when no source
\* config matches the normalized domain or the config has skip set;
\* otherwise it issues exactly one GET, and returns null when the transport
\* or the HTTP status fails.
C19_FetcherRequests ==
    \A i \in Handled :
        LET r == RedirectOf(i)
            source == batch[i].source IN
        (fetchLog[r].calls = 1) =>
            IF Matching(source) = {} \/ SourcesConfig[FirstMatching(source)].skip
            THEN /\ fetchLog[r].gets = 0
                 /\ contentMap[r] = Null
            ELSE /\ fetchLog[r].gets = 1
                 /\ (observed[r].http # "ok") => (contentMap[r] = Null)
                 /\ (observed[r].http = "ok") => (contentMap[r] # Null)

\* The fetcher was called for two records: one whose config is marked skip,
\* and one with a fetched config whose GET failed.
C19_Witness ==
    /\ pos = 2
    /\ fetchLog[RedirectOf(1)].calls = 1
    /\ fetchLog[RedirectOf(1)].gets = 0
    /\ Matching(batch[1].source) # {}
    /\ fetchLog[RedirectOf(2)].calls = 1
    /\ fetchLog[RedirectOf(2)].gets = 1
    /\ observed[RedirectOf(2)].http = "status"
    /\ contentMap[RedirectOf(2)] = Null

\* The record failed: the navigation or an automation call raised, the gate
\* was exhausted on its page, or the content fetch failed.
RecordFailed(i) ==
    LET obs == observed[RedirectOf(i)] IN
    \/ obs.nav # "ok"
    \/ obs.gate \in {"ChallengeFailed", "ProtocolException"}
    \/ obs.query \notin {"marker", "clear", "none"}
    \/ obs.http \in {"transport", "status"}

\* What ends the pass other than its records: the browser does not start,
\* a checkpoint raises (the write of the redirect index or of the content
\* cache, or the upsert into the sink; "ResolveError" wraps what a
\* checkpoint of the loop raised), browser.stop() raises, or the process is
\* interrupted.
PassFailures ==
    {"StartError", "SinkError", "StopError", "KeyboardInterrupt",
     "ValueError", "NotImplementedError", "ImportError", "ResolveError"}

IsolatedSoFar ==
    /\ \A i \in Handled :
          /\ RedirectOf(i) \in DOMAIN redirectedUrls
          /\ RecordFailed(i) =>
                \/ redirectedUrls[RedirectOf(i)].tag = "Error: "
                \/ contentMap[RedirectOf(i)] = Null
    /\ pending \in {"none"} \cup PassFailures
    /\ (pc = "done") => (outcome \in {"returned"} \cup PassFailures)
    /\ (pc = "done" /\ outcome = "returned") =>
          /\ pos = Len(batch)
          /\ \A i \in 1..Len(batch) : RedirectOf(i) \in DOMAIN redirectedUrls

\* C20: whatever records fail while being resolved (navigation timeout,
\* automation exception, gate exhaustion on the page, content-fetch failure),
\* the failing url gets an error tag or null content, no such failure leaves
\* the loop, and the pass ends; when it ends without a failure of the sink,
\* of the browser or an interrupt, it returns normally with a redirect-index
\* entry for every url of the batch.
C20_PerRecordIsolation == []IsolatedSoFar /\ <>(pc = "done")

\* The pass returned normally after the gate was exhausted on the first page
\* and the content fetch of the second record failed.
C20_Witness ==
    /\ pc = "done"
    /\ outcome = "returned"
    /\ pos = 2
    /\ observed[RedirectOf(1)].gate = "ChallengeFailed"
    /\ redirectedUrls[RedirectOf(1)] = ErrorTag("ChallengeFailed")
    /\ observed[RedirectOf(2)].http = "transport"
    /\ redirectedUrls[RedirectOf(2)].tag = ""
    /\ contentMap[RedirectOf(2)] = Null


(***************************************************************************)
(* Vote parsing.                                                           *)
(***************************************************************************)
\* The text of a vote attribute is a count, a label of at least one word and
\* then "vote" or "votes".
VoteText(attr) ==
    \E n \in 0..12, last \in {"vote", "votes"} :
        \E label \in {SubSeq(attr, 2, j) : j \in 2..Len(attr)} :
            attr = <<Num(n)>> \o label \o <<Word(last)>>

\* The attributes of a row that are such texts, in document order.
VoteTexts(el) == SelectSeq(el.votes, VoteText)

\* C30: the votes of a stored record have an entry label -> count exactly
\* for the vote attributes of the row that match the pattern, the count being
\* that of the last attribute with the label; an attribute that does not
\* match adds nothing and takes nothing away from the others.  Both the bulk
\* script and the fallback parse this way.
C30_VotesParsed ==
    \A u \in DOMAIN cache :
        LET texts == VoteTexts(dom[1])
            labels == {SubSeq(texts[i], 2, Len(texts[i]) - 1) : i \in 1..Len(texts)}
            votes == cache[u].votes IN
        /\ DOMAIN votes = labels
        /\ \A i \in 1..Len(texts) :
              LET label == SubSeq(texts[i], 2, Len(texts[i]) - 1) IN
              (\A j \in (i + 1)..Len(texts) :
                  SubSeq(texts[j], 2, Len(texts[j]) - 1) # label)
              => votes[label] = texts[i][1].n

\* The fallback stored a row with "5 Bullish votes", "5 votes", a node
\* without title and "12 Important vote".
C30_Witness ==
    /\ pc = "collected"
    /\ raw = "raise"
    /\ Len(dom[1].votes) = 4
    /\ \E u \in DOMAIN cache :
          /\ DOMAIN cache[u].votes = {<<Word("Bullish")>>, <<Word("Important")>>}
          /\ cache[u].votes[<<Word("Bullish")>>] = 5
          /\ cache[u].votes[<<Word("Important")>>] = 12


(***************************************************************************)
(* The cache during a pass and at its load.                                *)
(***************************************************************************)
\* C28: during a scrape pass the set of urls of the in-memory cache only
\* grows: no step of the gate, the scroll driver, the extraction (bulk or
\* fallback, force-refresh on or off) or the checkpointing removes a key.
C28_CacheKeysOnlyGrow == [][DOMAIN cache \subseteq DOMAIN cache']_vars

\* A forced pass over two rows has replaced the record of the cache file and
\* added another.
C28_Witness ==
    /\ pc = "collected"
    /\ forceUpdate
    /\ cacheAtEntry = OldCache
    /\ DOMAIN cache = {Url(1, "a"), Url(2, "b")}
    /\ cache[Url(1, "a")] # OldCache[Url(1, "a")]

\* C29: _load_cache never raises: it returns the mapping of the file when
\* the file is present and well-formed, and an empty cache when the file is
\* missing, unreadable or corrupt.
C29_LoadNeverFatal ==
    /\ loadOutcome \in {"loaded", "missing", "unreadable", "corrupt"}
    /\ (pc = "start") =>
          cache = (IF loadOutcome = "loaded" THEN fileAtStart.records
                   ELSE EmptyCache)


\* The urls the pass has resolved whose result is not yet in the redirect
\* index on disk, in the content cache on disk and upserted into the sink.
Unpersisted ==
    {r \in DOMAIN redirectedUrls :
        \/ r \notin DOMAIN savedIndex
        \/ r \notin DOMAIN savedContent
        \/ r \notin DOMAIN upserts}

\* C21: during the enrichment pass the number of resolved urls not yet
\* persisted (redirect index, content cache) and upserted never exceeds the
\* batch size 10, and on every exit of the pass, normal or by error, it is
\* zero, each resolved url having been upserted in exactly one batch.
C21_EnrichmentCheckpointed ==
    /\ Cardinality(Unpersisted) <= REDIRECT_SAVE_INTERVAL
    /\ pc = "done" =>
          /\ Unpersisted = {}
          /\ \A r \in DOMAIN redirectedUrls : upserts[r] = 1

\* The click-through paths of the link records of the cache file whose
\* destination no earlier pass has resolved: the sink has no row for them,
\* or a row without final url.
UnresolvedLinks ==
    {file.records[u].redirect_url :
        u \in {v \in DOMAIN file.records :
                  /\ file.records[v].source_type = "link"
                  /\ \/ file.records[v].redirect_url \notin DOMAIN sinkRows
                     \/ sinkRows[file.records[v].redirect_url].final = Null}}

\* C22: the enrichment pass navigates to exactly the click-through paths of
\* the link records whose destination is not yet resolved: a record resolved
\* in an earlier pass (also one resolved as still on the origin, with null
\* content) is not in the batch, and every unresolved link record known at
\* the start of the pass is.
C22_SelectsUnresolvedLinks ==
    pc = "rd_start" =>
        {batch[i].redirect_url : i \in 1..Len(batch)} = UnresolvedLinks

\* The rate interval in hundredths of a second: 3.0 s without an API key,
\* 0.12 s with one.
RateInterval == IF jinaKey THEN 12 ELSE 300

\* C23: every GET of read_with_jina_api, successful or failed, is followed
\* by a sleep of the full rate interval before the call returns, so the
\* starts of two consecutive GETs are at least one rate interval apart and
\* N fetches take at least N times the rate interval.
C23_RateLimited ==
    /\ \A r \in DOMAIN fetchLog : fetchLog[r].gets = 1 => fetchLog[r].sleeps = 1
    /\ \A i \in 1..(Len(getStarts) - 1) :
          getStarts[i + 1] - getStarts[i] >= RateInterval
    /\ clock >= Len(getStarts) * RateInterval

\* Two fetches were made, the first of which failed.
C23_Witness ==
    /\ Len(getStarts) = 2
    /\ \E r \in DOMAIN observed :
          /\ r = batch[1].redirect_url
          /\ fetchLog[r].gets = 1
          /\ observed[r].http # "ok"

\* A step leaves every content and final url that is set as it is, in the
\* rows of the frame rows.
KeptUpward(before, after) ==
    \A r \in DOMAIN before :
        /\ r \in DOMAIN after
        /\ before[r].content # Null => after[r].content = before[r].content
        /\ before[r].final # Null => after[r].final = before[r].final

\* C24: across the checkpoints of an enrichment pass and the upserts into
\* the sink, the content and the final url of a record only go from null to
\* a value: one that is set is never reset to null nor replaced by an error
\* tag.
C24_EnrichmentWriteOnce ==
    [][/\ KeptUpward(sinkRows, sinkRows')
       /\ KeptUpward(savedContent, savedContent')]_vars

\* The attempt met what the function was after.
Succeeded(o) == o \in {"content", "value"}

\* The delay due after the k-th failed attempt: minimum_time x k for the
\* description fetch, one second for the field fetches.
DelayDue(k) == IF retryKind = "description" THEN minimumTime * k ELSE 100

RetrySoFar ==
    /\ Len(attemptLog) <= maxRetries
    /\ \A k \in 1..Len(attemptLog) :
          Succeeded(attemptLog[k]) => k = Len(attemptLog) /\ pc = "done"
    /\ \A k \in 1..Len(delays) : delays[k] = DelayDue(k)
    /\ \A k \in 1..(Len(attemptLog) - 1) : k <= Len(delays)
    /\ outcome = "running"
    /\ pc = "done" =>
          IF attemptLog # <<>> /\ Succeeded(attemptLog[Len(attemptLog)])
          THEN fetched \in {"content", "value"}
          ELSE /\ Len(attemptLog) = maxRetries
               /\ fetched \in {"default_value", "Error fetching content",
                                "Error: Failed after retries"}

\* C26: a call of async_fetch_description_body, retry_fetch_text or
\* retry_fetch_attribute makes at most max_retries attempts, waits a fixed
\* delay or minimum_time x k after the k-th failed attempt before the next
\* one, raises nothing, terminates, and after the last failed attempt
\* returns the default or an error value.
C26_RetryBoundedAndTotal == []RetrySoFar /\ <>(pc = "done")

\* A description fetch whose three or more attempts all failed.
C26_Witness ==
    /\ pc = "done"
    /\ retryKind = "description"
    /\ maxRetries >= 3
    /\ Len(attemptLog) = maxRetries
    /\ Len(delays) >= 2
    /\ fetched = "Error fetching content"

\* C25: the records that need a description are served from a pool of
\* max_concurrent pages, each of them obtaining a page of the pool: when a
\* run that had such records is over, the pool of max_concurrent pages has
\* been created for them.
C25_SessionPool ==
    (pc = "done" /\ toUpdate > 0) => Cardinality(pagePool) = maxConcurrency

\* C27: whenever collection produced at least one new record, the merged
\* cache is written to durable storage before run returns or raises, also
\* when the description enrichment fails.
C27_RunPersistsCollected ==
    (pc = "done" /\ apiData # <<>>)
        => apiSaved = Cardinality({apiData[i] : i \in DOMAIN apiData})

(***************************************************************************)
(* Currencies of a stored record.                                          *)
(***************************************************************************)
\* The non-empty ticker texts of a row, trimmed, in document order.
MatchedTickers(el) ==
    LET trimmed == [i \in 1..Len(el.tickers) |->
                       IF el.tickers[i] = " " THEN "" ELSE el.tickers[i]] IN
    SelectSeq(trimmed, LAMBDA t : t # "")

\* C31: every record stored by extraction, bulk or fallback, has a non-empty
\* currencies list: <<"N/A">> when no ticker text was matched for the row,
\* otherwise the matched non-empty ticker texts in order.
C31_CurrenciesDefault ==
    pc = "collected" =>
        \A u \in DOMAIN cache :
            /\ cache[u].currencies # <<>>
            /\ cache[u].currencies =
                  (IF MatchedTickers(dom[1]) = <<>> THEN <<"N/A">>
                   ELSE MatchedTickers(dom[1]))

(***************************************************************************)
(* The gate and a challenge that has cleared.                              *)
(***************************************************************************)
\* C32: the gate never fails a page whose challenge has cleared: when it
\* ends with ChallengeFailed the challenge marker is on the page at that
\* moment, so a challenge that clears by a solve, the fifth included, leads
\* to Ok.
C32_FailsOnlyWhileChallenged ==
    [][(gateResult' = "ChallengeFailed" /\ gateResult # "ChallengeFailed")
          => challenge']_vars

(***************************************************************************)
(* The durable redirect index and content cache across checkpoints.        *)
(***************************************************************************)
\* C33: an entry of the redirect index or a content value that a checkpoint
\* has written to disk is still there after every later checkpoint, of the
\* same pass or of a later pass.
C33_PersistedNeverShrinks ==
    [][/\ \A r \in DOMAIN savedIndex :
             r \in DOMAIN savedIndex' /\ savedIndex'[r] = savedIndex[r]
       /\ \A r \in DOMAIN savedContent :
             savedContent[r].content # Null =>
                /\ r \in DOMAIN savedContent'
                /\ savedContent'[r].content = savedContent[r].content]_vars

(***************************************************************************)
(* Rate limiting of the synchronous description fetches.                   *)
(***************************************************************************)
\* C34: every call of fetch_description_body_jina, successful or failed,
\* returns no sooner than the rate interval after it started, and
\* consecutive calls made by update_descriptions start at least the rate
\* interval apart.
C34_FetchesSpaced ==
    /\ \A i \in DOMAIN descCalls :
          descCalls[i].returned - descCalls[i].start >= api_rate_time(apiKey)
    /\ \A i \in DOMAIN descCalls :
          i > 1 =>
            descCalls[i].start - descCalls[i - 1].start >= api_rate_time(apiKey)

(***************************************************************************)
(* Redirect urls as keys of the sink.                                      *)
(***************************************************************************)
\* C35: two records stored under different urls have different redirect
\* urls, so a sink row keyed by redirect url belongs to one record only.
C35_RedirectKeysUnique ==
    \A u, v \in DOMAIN cache :
        u # v => cache[u].redirect_url # cache[v].redirect_url

(***************************************************************************)
(* Release of the browser session.                                         *)
(***************************************************************************)
\* C36: when a pass has ended, on whichever path, the browser session it
\* started is stopped (unless browser.stop() itself raised).
C36_SessionReleased ==
    (pc = "done" /\ outcome # "StopError") => browser # "running"

(***************************************************************************)
(* Isolation of the fallback tasks.                                        *)
(***************************************************************************)
\* The rows of the page whose fallback parse yields a record.
Parsed == {i \in 1..Len(articles) :
             parse_article(articles[i], i \in queryFaults) # None}

\* A step wrote a record into the cache: the since-last-save counter moved.
CacheWrite == newSinceLastSave' # newSinceLastSave

\* C37: in the fallback a row whose parse fails does not fail or undo the
\* task of another row: a finished task stays finished with its result,
\* every step that writes the cache is counted once and no other step is
\* counted; when the fallback has returned every row's task is done, every
\* row that parsed is in the cache under its url, and the returned count is
\* the number of cache writes.
C37_FallbackTasksIsolated ==
    /\ [](FallbackReturned =>
            /\ \A i \in DOMAIN task : task[i] = "done"
            /\ \A i \in Parsed :
                  parse_article(articles[i], i \in queryFaults).url \in DOMAIN cache
            /\ newCount = (IF forceUpdate THEN Cardinality(Parsed)
                           ELSE Cardinality(DOMAIN cache \ DOMAIN cacheAtEntry)))
    /\ [][pc = "tasks" =>
            /\ \A i \in DOMAIN task :
                  task[i] = "done" => task'[i] = "done" /\ results'[i] = results[i]
            /\ Cardinality({i \in DOMAIN results' : results'[i]})
                  = Cardinality({i \in DOMAIN results : results[i]})
                    + (IF CacheWrite THEN 1 ELSE 0)]_vars
====
